---- MODULE Spec2Model ----
(***************************************************************************)
(* State-machine model of kavaro/sync-worker: the change-id tracker        *)
(* (OptimisticChangeIds), the patch-apply utilities (util.ts), the client  *)
(* agent (SyncClient) and the worker engine (SyncWorker), with the         *)
(* in-memory store (MemoryDb) as the replica behind each of them.          *)
(*                                                                         *)
(* A document is a record [id, name, other]; a field holding "none" is a   *)
(* field the JavaScript object does not have, and NoDoc stands for         *)
(* `undefined`.  A patch is [path, value]: it sets one field.  A JS Map is *)
(* a sequence of [key, val] entries in insertion order.                    *)
(***************************************************************************)
EXTENDS Integers, Sequences, FiniteSets, TLC

VARIABLES
  workerDb,              \* SyncWorker.workerDb: the docs of the worker store
  clientChanges,         \* SyncWorker.clientChanges: Map docId -> optimistic change
  pendingClientChanges,  \* SyncWorker.pendingClientChanges: "null" or the array it refers to
  pendingServerChanges,  \* SyncWorker.pendingServerChanges: "null" or the array it refers to
  arrC,                  \* the array each save() allocated for buffered client changes
  arrS,                  \* the array each save() allocated for buffered server changes
  pc,                    \* where each save() call stands
  batch,                 \* what each save() call passed to serverDb.save
  emits,                 \* the 'changed' batches the last handler emitted, in order
  log,                   \* the changes the last save() replayed when it settled, in order
  events,                \* number of changes submitted so far
  arrivedC,              \* history: client changes submitted since the save in flight began
  arrivedS,              \* history: server changes submitted since the save in flight began
  failedKeys,            \* history: doc ids pending at a failed serverDb.save, not yet saved
  ids,                   \* OptimisticChangeIds.ids: Map docId -> changeId
  nextId,                \* the id factory: number of ids it has produced
  ret,                   \* the last tracker call, the id tracked before it, its result
  issued,                \* history: the ids add(docId) returned, oldest first
  clientDb,              \* SyncClient.clientDb: the docs of the client store
  applyingWorkerChanges, \* SyncClient.applyingWorkerChanges
  clientEmits,           \* the 'changed' batches SyncClient emitted in the last handler
  acks,                  \* history: what the last workerChanged decided for each change
  call,                  \* history: the last call of a SyncWorker handler and its arguments
  serverDb,              \* the docs of the server store (ServerMemoryDb)
  client2worker,         \* the batches SyncClient emitted that have not reached the worker
  worker2client,         \* the batches SyncWorker emitted that have not reached the client
  reached                \* history: who deleted a doc at the worker since the last save settled

wvars == <<workerDb, clientChanges, pendingClientChanges, pendingServerChanges,
           arrC, arrS, pc, batch, emits, log, events, arrivedC, arrivedS,
           failedKeys>>
tvars == <<ids, nextId, ret, issued>>
cvars == <<clientDb, applyingWorkerChanges, clientEmits, acks>>
svars == <<serverDb, client2worker, worker2client, reached>>
vars == <<wvars, tvars, cvars, call, svars>>

----------------------------------------------------------------------------
(* Bounds and value sets *)

MaxEvents == 3    \* changes submitted to the worker engine in one behaviour
MaxIds == 3       \* change ids the id factory hands out in one behaviour

Colls == {"c1", "c2"}
DocIds == {"id1", "id2"}
Names == {"a", "b"}
SaveIds == {"s1", "s2"}

NoId == 0
NoDoc == [id |-> "none", name |-> "none", other |-> "none"]
BareDoc(i) == [id |-> i, name |-> "none", other |-> "none"]

----------------------------------------------------------------------------
(* JS Map as a sequence of entries in insertion order *)

MapHas(m, k) == \E i \in 1..Len(m) : m[i].key = k

MapGet(m, k) == m[CHOOSE i \in 1..Len(m) : m[i].key = k].val

\* mutant: set appends an entry although the key has one
MapSetAppend(m, k, v) == Append(m, [key |-> k, val |-> v])

MapSet(m, k, v) ==
  IF MapHas(m, k)
  THEN [i \in 1..Len(m) |-> IF m[i].key = k THEN [key |-> k, val |-> v] ELSE m[i]]
  ELSE Append(m, [key |-> k, val |-> v])

MapDelete(m, k) == SelectSeq(m, LAMBDA e : e.key # k)

MapValues(m) == [i \in 1..Len(m) |-> m[i].val]

MapKeys(m) == {m[i].key : i \in 1..Len(m)}

----------------------------------------------------------------------------
(* MemoryDbBase: a store is a function from <<collection, docId>> to a doc *)

EmptyDb == [k \in Colls \X DocIds |-> NoDoc]

GetId(doc) == doc.id

IsEqual(docA, docB) == docA = docB

Clean(doc) == doc

DbGet(db, collection, id) == db[<<collection, id>>]

\* Object.assign(draft, doc) on a draft of the old doc: the fields doc has win
Assign(oldDoc, doc) ==
  [id |-> doc.id,
   name |-> IF doc.name # "none" THEN doc.name ELSE oldDoc.name,
   other |-> IF doc.other # "none" THEN doc.other ELSE oldDoc.other]

DbSet(db, collection, doc) ==
  LET oldDoc == DbGet(db, collection, GetId(doc))
      newDoc == IF oldDoc = NoDoc THEN doc ELSE Assign(oldDoc, doc)
  IN [db EXCEPT ![<<collection, GetId(doc)>>] = newDoc]

DbDelete(db, collection, id) == [db EXCEPT ![<<collection, id>>] = NoDoc]

----------------------------------------------------------------------------
(* The injected patch engine: each patch sets one field *)

ApplyPatch(doc, patch) ==
  IF patch.path = "id" THEN [doc EXCEPT !.id = patch.value]
  ELSE IF patch.path = "name" THEN [doc EXCEPT !.name = patch.value]
  ELSE [doc EXCEPT !.other = patch.value]

RECURSIVE ApplyPatches(_, _)
ApplyPatches(doc, patches) ==
  IF patches = <<>> THEN doc
  ELSE ApplyPatches(ApplyPatch(doc, Head(patches)), Tail(patches))

----------------------------------------------------------------------------
(* util.ts: each returns the store and whether it was mutated *)

applyDelete(db, collection, id) ==
  IF DbGet(db, collection, id) # NoDoc
  THEN [db |-> DbDelete(db, collection, id), changed |-> TRUE]
  ELSE [db |-> db, changed |-> FALSE]

\* mutant: applySet writes the doc whatever the store holds
applySetAlways(db, collection, doc) ==
  [db |-> DbSet(db, collection, doc), changed |-> TRUE]

applySet(db, collection, doc) ==
  LET oldDoc == DbGet(db, collection, GetId(doc))
  IN IF oldDoc = NoDoc \/ ~IsEqual(doc, oldDoc)
     THEN [db |-> DbSet(db, collection, doc), changed |-> TRUE]
     ELSE [db |-> db, changed |-> FALSE]

applyChange(db, type, collection, doc) ==
  IF type = "delete" THEN applyDelete(db, collection, GetId(doc))
  ELSE applySet(db, collection, doc)

----------------------------------------------------------------------------
(* Changes.  Every change is a record [id, type, collection, doc, patches];  *)
(* id = NoId and patches = <<>> stand for a change without that property.   *)

Upsert(cid, c, i, n, ps) ==
  [id |-> cid, type |-> "upsert", collection |-> c,
   doc |-> [id |-> i, name |-> n, other |-> "none"], patches |-> ps]

Delete(cid, c, i) ==
  [id |-> cid, type |-> "delete", collection |-> c, doc |-> BareDoc(i), patches |-> <<>>]

ServerSet(c, i, n, o) ==
  [id |-> NoId, type |-> "set", collection |-> c,
   doc |-> [id |-> i, name |-> n, other |-> o], patches |-> <<>>]

ServerDelete(c, doc) ==
  [id |-> NoId, type |-> "delete", collection |-> c, doc |-> doc, patches |-> <<>>]

WorkerChange(cid, type, c, doc) ==
  [id |-> cid, type |-> type, collection |-> c, doc |-> doc, patches |-> <<>>]

----------------------------------------------------------------------------
(* SyncWorker.  The engine state is handled as a record e so that save()'s  *)
(* finally block can call clientChanged and changed in sequence.            *)

\* mutant: the handlers never look at the buffers
NeverBuffering(ref) == FALSE

IsBuffering(ref) == ref # "null"

\* mutant: a buffered call overwrites what was buffered before it
PushReplace(arr, changes) == changes

\* mutant: a buffered call is put in front of what was buffered before it
PushFront(arr, changes) == changes \o arr

Push(arr, changes) == arr \o changes

\* mutant: the queue is emitted even when it is empty
EmitAlways(emitted, workerChangesById) == Append(emitted, MapValues(workerChangesById))

Emit(emitted, workerChangesById) ==
  IF Len(workerChangesById) > 0 THEN Append(emitted, MapValues(workerChangesById))
  ELSE emitted

\* mutant: the record stored for an upsert is the new change alone
MergeClientChangeReplace(cc, docId, optimisticChange) == optimisticChange

\* mutant: an upsert leaves a delete record in place
MergeClientChangeKeepDelete(cc, docId, optimisticChange) ==
  IF MapHas(cc, docId) /\ MapGet(cc, docId).type = "delete"
  THEN MapGet(cc, docId)
  ELSE IF MapHas(cc, docId)
       THEN [optimisticChange EXCEPT
               !.patches = MapGet(cc, docId).patches \o optimisticChange.patches]
       ELSE optimisticChange

\* the record stored for an upsert: journal of the old upsert record, then the new patches
MergeClientChange(cc, docId, optimisticChange) ==
  IF MapHas(cc, docId) /\ MapGet(cc, docId).type = "upsert"
  THEN [optimisticChange EXCEPT
          !.patches = MapGet(cc, docId).patches \o optimisticChange.patches]
  ELSE optimisticChange

\* mutant: a delete keeps the record the document already has
ClientChangedEachDeleteKeeps(acc, optimisticChange) ==
  LET collection == optimisticChange.collection
      clientDoc == optimisticChange.doc
      docId == GetId(clientDoc)
      oldDoc == DbGet(acc.db, collection, docId)
      newDoc == ApplyPatches(oldDoc, optimisticChange.patches)
      logged == Append(acc.log, [kind |-> "client", change |-> optimisticChange])
  IN IF optimisticChange.type = "delete"
     THEN [db |-> applyDelete(acc.db, collection, docId).db,
           cc |-> IF MapHas(acc.cc, docId) THEN acc.cc
                  ELSE MapSet(acc.cc, docId, optimisticChange),
           wc |-> acc.wc,
           log |-> logged]
     ELSE [db |-> IF oldDoc # NoDoc THEN applySet(acc.db, collection, newDoc).db
                  ELSE applySet(acc.db, collection, clientDoc).db,
           cc |-> MapSet(acc.cc, docId, MergeClientChange(acc.cc, docId, optimisticChange)),
           wc |-> IF oldDoc # NoDoc /\ ~IsEqual(newDoc, clientDoc)
                  THEN MapSet(acc.wc, docId,
                              WorkerChange(optimisticChange.id, "set", collection, newDoc))
                  ELSE acc.wc,
           log |-> logged]

\* body of optimisticChanges.forEach; acc = [db, cc, wc, log]
ClientChangedEach(acc, optimisticChange) ==
  LET collection == optimisticChange.collection
      clientDoc == optimisticChange.doc
      docId == GetId(clientDoc)
      oldDoc == DbGet(acc.db, collection, docId)
      newDoc == ApplyPatches(oldDoc, optimisticChange.patches)
      logged == Append(acc.log, [kind |-> "client", change |-> optimisticChange])
  IN IF optimisticChange.type = "delete"
     THEN [db |-> applyDelete(acc.db, collection, docId).db,
           cc |-> MapSet(acc.cc, docId, optimisticChange),
           wc |-> acc.wc,
           log |-> logged]
     ELSE [db |-> IF oldDoc # NoDoc THEN applySet(acc.db, collection, newDoc).db
                  ELSE applySet(acc.db, collection, clientDoc).db,
           cc |-> MapSet(acc.cc, docId, MergeClientChange(acc.cc, docId, optimisticChange)),
           wc |-> IF oldDoc # NoDoc /\ ~IsEqual(newDoc, clientDoc)
                  THEN MapSet(acc.wc, docId,
                              WorkerChange(optimisticChange.id, "set", collection, newDoc))
                  ELSE acc.wc,
           log |-> logged]

RECURSIVE ClientChangedForEach(_, _)
ClientChangedForEach(acc, optimisticChanges) ==
  IF optimisticChanges = <<>> THEN acc
  ELSE ClientChangedForEach(ClientChangedEach(acc, Head(optimisticChanges)),
                            Tail(optimisticChanges))

clientChanged(e, optimisticChanges) ==
  IF IsBuffering(e.pcc)
  THEN [e EXCEPT !.arrC[e.pcc] = Push(@, optimisticChanges)]
  ELSE LET acc == ClientChangedForEach(
                    [db |-> e.db, cc |-> e.cc, wc |-> <<>>, log |-> e.log],
                    optimisticChanges)
       IN [e EXCEPT !.db = acc.db, !.cc = acc.cc, !.log = acc.log,
                    !.emits = Emit(@, acc.wc)]

\* mutant: a server change is applied whatever the pending record says
ChangedEachDirect(acc, serverChange) ==
  LET direct == applyChange(acc.db, serverChange.type, serverChange.collection,
                            serverChange.doc)
  IN [acc EXCEPT
        !.db = direct.db,
        !.wc = IF direct.changed
               THEN MapSet(acc.wc, GetId(serverChange.doc),
                           WorkerChange(NoId, serverChange.type, serverChange.collection,
                                        serverChange.doc))
               ELSE acc.wc,
        !.log = Append(acc.log, [kind |-> "server", change |-> serverChange])]

\* body of serverChanges.forEach; acc = [db, cc, wc, log]
ChangedEach(acc, serverChange) ==
  LET type == serverChange.type
      collection == serverChange.collection
      serverDoc == serverChange.doc
      docId == GetId(serverDoc)
      clientChange == MapGet(acc.cc, docId)
      newDoc == ApplyPatches(serverDoc, clientChange.patches)
      direct == applyChange(acc.db, type, collection, serverDoc)
      logged == Append(acc.log, [kind |-> "server", change |-> serverChange])
  IN IF MapHas(acc.cc, docId)
     THEN IF clientChange.type # "delete" /\ type # "delete"
          THEN [acc EXCEPT
                  !.db = applySet(acc.db, collection, newDoc).db,
                  !.wc = IF ~IsEqual(newDoc, clientChange.doc)
                         THEN MapSet(acc.wc, docId,
                                     WorkerChange(clientChange.id, type, collection, newDoc))
                         ELSE acc.wc,
                  !.log = logged]
          ELSE [acc EXCEPT !.log = logged]
     ELSE [acc EXCEPT
             !.db = direct.db,
             !.wc = IF direct.changed
                    THEN MapSet(acc.wc, docId, WorkerChange(NoId, type, collection, serverDoc))
                    ELSE acc.wc,
             !.log = logged]

RECURSIVE ChangedForEach(_, _)
ChangedForEach(acc, serverChanges) ==
  IF serverChanges = <<>> THEN acc
  ELSE ChangedForEach(ChangedEach(acc, Head(serverChanges)), Tail(serverChanges))

\* mutant: changed() forgets the pending records of the documents it handled
changedForgets(e, serverChanges) ==
  IF IsBuffering(e.psc)
  THEN [e EXCEPT !.arrS[e.psc] = Push(@, serverChanges)]
  ELSE LET acc == ChangedForEach(
                    [db |-> e.db, cc |-> e.cc, wc |-> <<>>, log |-> e.log],
                    serverChanges)
       IN [e EXCEPT !.db = acc.db, !.log = acc.log, !.emits = Emit(@, acc.wc),
                    !.cc = SelectSeq(@, LAMBDA r :
                             \A k \in 1..Len(serverChanges) :
                               GetId(serverChanges[k].doc) # r.key)]

changed(e, serverChanges) ==
  IF IsBuffering(e.psc)
  THEN [e EXCEPT !.arrS[e.psc] = Push(@, serverChanges)]
  ELSE LET acc == ChangedForEach(
                    [db |-> e.db, cc |-> e.cc, wc |-> <<>>, log |-> e.log],
                    serverChanges)
       IN [e EXCEPT !.db = acc.db, !.log = acc.log, !.emits = Emit(@, acc.wc)]

\* workerDb.ids(collection), in the order of DocIdOrder
DocIdOrder == <<"id1", "id2">>

WorkerIds(db, collection) ==
  SelectSeq(DocIdOrder, LAMBDA i : DbGet(db, collection, i) # NoDoc)

\* mutant: compaction ignores the ids the server listed
CompactChangesAll(db, collection, serverIds) ==
  LET gone == WorkerIds(db, collection)
  IN [k \in 1..Len(gone) |-> ServerDelete(collection, Clean(DbGet(db, collection, gone[k])))]

CompactChanges(db, collection, serverIds) ==
  LET gone == SelectSeq(WorkerIds(db, collection), LAMBDA i : i \notin serverIds)
  IN [k \in 1..Len(gone) |-> ServerDelete(collection, Clean(DbGet(db, collection, gone[k])))]

compact(e, collection, serverIds) ==
  LET changes == CompactChanges(e.db, collection, serverIds)
  IN IF Len(changes) > 0 THEN changed(e, changes) ELSE e

\* mutant: save() sets the buffer of the client changes only
SaveBeginClientOnly(e, s) ==
  [e EXCEPT !.arrC[s] = <<>>, !.arrS[s] = <<>>, !.pcc = s]

\* save(): the two assignments before the try block
SaveBegin(e, s) ==
  [e EXCEPT !.arrC[s] = <<>>, !.arrS[s] = <<>>, !.pcc = s, !.psc = s]

\* mutant: an upsert is sent with the doc stored in the record
BuildServerChangeFromRecord(db, change) ==
  [type |-> change.type, collection |-> change.collection, doc |-> change.doc,
   patches |-> change.patches]

\* one entry of the batch for serverDb.save
BuildServerChange(db, change) ==
  IF change.type = "delete"
  THEN [type |-> change.type, collection |-> change.collection, doc |-> change.doc,
        patches |-> <<>>]
  ELSE [type |-> change.type, collection |-> change.collection,
        doc |-> Clean(DbGet(db, change.collection, GetId(change.doc))),
        patches |-> change.patches]

BuildServerChanges(db, cc) ==
  [k \in 1..Len(cc) |-> BuildServerChange(db, cc[k].val)]

\* mutant: a successful save keeps the records it sent
KeepClientChanges(cc) == cc

\* this.clientChanges = new Map()
ClearClientChanges(cc) == <<>>

\* mutant: the finally block replays without leaving buffering mode
SaveFinallyStuck(e, s) ==
  changed(clientChanged(e, e.arrC[s]), e.arrS[s])

\* save(): the finally block of the call that owns the arrays s
SaveFinally(e, s) ==
  LET e1 == [e EXCEPT !.pcc = "null", !.psc = "null"]
      e2 == clientChanged(e1, e.arrC[s])
      e3 == changed(e2, e.arrS[s])
  IN [e3 EXCEPT !.arrC[s] = <<>>, !.arrS[s] = <<>>]

----------------------------------------------------------------------------
(* Inputs of the worker engine *)

NamePatch(n) == [path |-> "name", value |-> n]

\* the change id the client minted for the n-th change it sent
ChangeIdAt(n) == n

\* what a client sends as its n-th change: an upsert of a doc with the
\* patch that produced it or with no patch, or a delete
ClientChangeInputs(colls, docIds, n) ==
  {Upsert(ChangeIdAt(n), c, i, "a", <<>>) : c \in colls, i \in docIds} \cup
  {Upsert(ChangeIdAt(n), c, i, m, <<NamePatch(m)>>) :
     c \in colls, i \in docIds, m \in Names} \cup
  {Delete(ChangeIdAt(n), c, i) : c \in colls, i \in docIds}

\* what the server reports: a set of a doc without or with the field the
\* client does not track, or a delete
ServerChangeInputs(colls, docIds, docs) ==
  {ServerSet(c, i, d[1], d[2]) : c \in colls, i \in docIds, d \in docs} \cup
  {ServerDelete(c, BareDoc(i)) : c \in colls, i \in docIds}

\* batches of one change, and batches of two changes from a narrower set
ClientBatches(n) ==
  {<<x>> : x \in ClientChangeInputs({"c1"}, DocIds, n + 1)} \cup
  {<<x, y>> : x \in {Upsert(ChangeIdAt(n + 1), "c1", "id1", "a", <<NamePatch("a")>>),
                     Delete(ChangeIdAt(n + 1), "c1", "id1")},
              y \in {Upsert(ChangeIdAt(n + 2), "c1", i, "b", <<NamePatch("b")>>) : i \in DocIds}
                    \cup {Delete(ChangeIdAt(n + 2), "c1", i) : i \in DocIds}}

ServerBatches ==
  {<<x>> : x \in ServerChangeInputs({"c1"}, DocIds, {<<"a", "none">>, <<"b", "c">>})} \cup
  {<<x, y>> : x \in ServerChangeInputs({"c1"}, {"id1"}, {<<"a", "c">>}),
              y \in ServerChangeInputs({"c1"}, DocIds, {<<"b", "none">>})}

----------------------------------------------------------------------------
(* The worker engine as a state machine *)

NoBatch == [called |-> FALSE, changes |-> <<>>]

Engine ==
  [db |-> workerDb, cc |-> clientChanges,
   pcc |-> pendingClientChanges, psc |-> pendingServerChanges,
   arrC |-> arrC, arrS |-> arrS, emits |-> <<>>, log |-> <<>>]

Install(e) ==
  /\ workerDb' = e.db
  /\ clientChanges' = e.cc
  /\ pendingClientChanges' = e.pcc
  /\ pendingServerChanges' = e.psc
  /\ arrC' = e.arrC
  /\ arrS' = e.arrS
  /\ emits' = e.emits
  /\ log' = e.log

Running(s) == pc[s] \in {"workerSave", "serverSave"}

InFlight == \E s \in SaveIds : Running(s)

\* the arrays a new save() call allocates
FreeSave == IF ~Running("s1") THEN "s1" ELSE "s2"

WorkerInit ==
  /\ workerDb = EmptyDb
  /\ clientChanges = <<>>
  /\ pendingClientChanges = "null"
  /\ pendingServerChanges = "null"
  /\ arrC = [s \in SaveIds |-> <<>>]
  /\ arrS = [s \in SaveIds |-> <<>>]
  /\ pc = [s \in SaveIds |-> "idle"]
  /\ batch = [s \in SaveIds |-> NoBatch]
  /\ emits = <<>>
  /\ log = <<>>
  /\ events = 0
  /\ arrivedC = <<>>
  /\ arrivedS = <<>>
  /\ failedKeys = {}

ClientChanged(optimisticChanges) ==
  /\ events + Len(optimisticChanges) <= MaxEvents
  /\ Install([clientChanged(Engine, optimisticChanges) EXCEPT !.log = <<>>])
  /\ events' = events + Len(optimisticChanges)
  /\ arrivedC' = IF InFlight THEN arrivedC \o optimisticChanges ELSE arrivedC
  /\ UNCHANGED <<pc, batch, arrivedS, failedKeys>>
  /\ UNCHANGED <<tvars, cvars>>

Changed(serverChanges) ==
  /\ events + Len(serverChanges) <= MaxEvents
  /\ Install([changed(Engine, serverChanges) EXCEPT !.log = <<>>])
  /\ events' = events + Len(serverChanges)
  /\ arrivedS' = IF InFlight THEN arrivedS \o serverChanges ELSE arrivedS
  /\ UNCHANGED <<pc, batch, arrivedC, failedKeys>>
  /\ UNCHANGED <<tvars, cvars>>

\* a compact that is buffered counts its deletes as submitted changes
Compact(collection, serverIds) ==
  LET changes == CompactChanges(workerDb, collection, serverIds)
      n == IF InFlight THEN Len(changes) ELSE 0
  IN /\ events + n <= MaxEvents
     /\ Install([compact(Engine, collection, serverIds) EXCEPT !.log = <<>>])
     /\ events' = events + n
     /\ arrivedS' = IF InFlight THEN arrivedS \o changes ELSE arrivedS
     /\ UNCHANGED <<pc, batch, arrivedC, failedKeys>>
     /\ UNCHANGED <<tvars, cvars>>

\* save() up to its first await
SaveStart(s) ==
  /\ s = FreeSave
  /\ Install(SaveBegin(Engine, s))
  /\ pc' = [pc EXCEPT ![s] = "workerSave"]
  /\ batch' = [batch EXCEPT ![s] = NoBatch]
  /\ arrivedC' = <<>>
  /\ arrivedS' = <<>>
  /\ UNCHANGED <<events, failedKeys>>
  /\ UNCHANGED <<tvars, cvars>>

\* workerDb.save() resolved: the batch is built and serverDb.save is called
WorkerSaveResolve(s) ==
  /\ pc[s] = "workerSave"
  /\ pc' = [pc EXCEPT ![s] = "serverSave"]
  /\ batch' = [batch EXCEPT ![s] =
                 [called |-> TRUE, changes |-> BuildServerChanges(workerDb, clientChanges)]]
  /\ emits' = <<>>
  /\ log' = <<>>
  /\ UNCHANGED <<workerDb, clientChanges, pendingClientChanges, pendingServerChanges,
                 arrC, arrS, events, arrivedC, arrivedS, failedKeys>>
  /\ UNCHANGED <<tvars, cvars>>

\* mutant: a failed save drops the records
CatchClear(cc) == <<>>

\* the catch block: rethrows, and leaves clientChanges as they are
CatchRethrow(cc) == cc

\* workerDb.save() rejected: catch, finally
WorkerSaveReject(s) ==
  /\ pc[s] = "workerSave"
  /\ Install(SaveFinally([Engine EXCEPT !.cc = CatchRethrow(@)], s))
  /\ pc' = [pc EXCEPT ![s] = "rejected"]
  /\ arrivedC' = <<>>
  /\ arrivedS' = <<>>
  /\ UNCHANGED <<batch, events, failedKeys>>
  /\ UNCHANGED <<tvars, cvars>>

\* serverDb.save(serverChanges) resolved: clientChanges are cleared, finally
ServerSaveResolve(s) ==
  /\ pc[s] = "serverSave"
  /\ Install(SaveFinally([Engine EXCEPT !.cc = ClearClientChanges(@)], s))
  /\ pc' = [pc EXCEPT ![s] = "resolved"]
  /\ failedKeys' = {}
  /\ arrivedC' = <<>>
  /\ arrivedS' = <<>>
  /\ UNCHANGED <<batch, events>>
  /\ UNCHANGED <<tvars, cvars>>

\* serverDb.save(serverChanges) rejected: catch, finally
ServerSaveReject(s) ==
  /\ pc[s] = "serverSave"
  /\ Install(SaveFinally([Engine EXCEPT !.cc = CatchRethrow(@)], s))
  /\ pc' = [pc EXCEPT ![s] = "rejected"]
  /\ failedKeys' = failedKeys \cup MapKeys(clientChanges)
  /\ arrivedC' = <<>>
  /\ arrivedS' = <<>>
  /\ UNCHANGED <<batch, events>>
  /\ UNCHANGED <<tvars, cvars>>

----------------------------------------------------------------------------
(* OptimisticChangeIds.  The id factory hands out 1, 2, 3, ... *)

IdFactory(n) == n + 1

\* mutant: add keeps the id already tracked for the document
addKeepFirst(trackedIds, n, docId) ==
  [ids |-> IF MapHas(trackedIds, docId) THEN trackedIds
           ELSE MapSet(trackedIds, docId, IdFactory(n)),
   nextId |-> n + 1, changeId |-> IdFactory(n)]

add(trackedIds, n, docId) ==
  LET changeId == IdFactory(n)
  IN [ids |-> MapSet(trackedIds, docId, changeId), nextId |-> n + 1, changeId |-> changeId]

\* mutant: remove clears the tracked id whatever the change id is
removeAnyId(trackedIds, docId, changeId) ==
  [ids |-> MapDelete(trackedIds, docId), value |-> TRUE]

\* mutant: remove does not clear the tracked id when the change id matches
removeKeep(trackedIds, docId, changeId) ==
  [ids |-> trackedIds,
   value |-> ~MapHas(trackedIds, docId) \/ changeId = MapGet(trackedIds, docId)]

remove(trackedIds, docId, changeId) ==
  IF ~MapHas(trackedIds, docId) THEN [ids |-> trackedIds, value |-> TRUE]
  ELSE IF changeId = MapGet(trackedIds, docId)
       THEN [ids |-> MapDelete(trackedIds, docId), value |-> TRUE]
       ELSE [ids |-> trackedIds, value |-> FALSE]

Tracked(trackedIds, docId) ==
  IF MapHas(trackedIds, docId) THEN MapGet(trackedIds, docId) ELSE NoId

TrackerInit ==
  /\ ids = <<>>
  /\ nextId = 0
  /\ ret = [name |-> "new", docId |-> "none", changeId |-> NoId, tracked |-> NoId,
            value |-> FALSE]
  /\ issued = [d \in DocIds |-> <<>>]

Add(docId) ==
  LET r == add(ids, nextId, docId)
  IN /\ nextId < MaxIds
     /\ ids' = r.ids
     /\ nextId' = r.nextId
     /\ ret' = [name |-> "add", docId |-> docId, changeId |-> r.changeId,
                tracked |-> Tracked(ids, docId), value |-> TRUE]
     /\ issued' = [issued EXCEPT ![docId] = Append(@, r.changeId)]
     /\ UNCHANGED <<wvars, cvars>>

Remove(docId, changeId) ==
  LET r == remove(ids, docId, changeId)
  IN /\ ids' = r.ids
     /\ ret' = [name |-> "remove", docId |-> docId, changeId |-> changeId,
                tracked |-> Tracked(ids, docId), value |-> r.value]
     /\ UNCHANGED <<nextId, issued>>
     /\ UNCHANGED <<wvars, cvars>>

----------------------------------------------------------------------------
(* MemoryDbBase as the client store: the 'changed' event of set and delete *)

\* the patches immer reports for Object.assign(draft, doc)
SetPatches(oldDoc, newDoc) ==
  (IF oldDoc.id # newDoc.id THEN <<[path |-> "id", value |-> newDoc.id]>> ELSE <<>>) \o
  (IF oldDoc.name # newDoc.name THEN <<[path |-> "name", value |-> newDoc.name]>>
   ELSE <<>>) \o
  (IF oldDoc.other # newDoc.other THEN <<[path |-> "other", value |-> newDoc.other]>>
   ELSE <<>>)

\* the batches set(collection, doc) emits, on any store: in the guard
\* (this.emits && !oldDoc) || !isEqual(newDoc, oldDoc) the second operand is
\* true whenever there was no old doc, so the flag makes no difference
SetEvents(db, collection, doc) ==
  LET oldDoc == DbGet(db, collection, GetId(doc))
      newDoc == DbGet(DbSet(db, collection, doc), collection, GetId(doc))
  IN IF oldDoc = NoDoc \/ ~IsEqual(newDoc, oldDoc)
     THEN <<[id |-> NoId, type |-> "upsert", collection |-> collection, doc |-> newDoc,
             patches |-> SetPatches(oldDoc, newDoc)]>>
     ELSE <<>>

\* the flag the constructor of each store passes to MemoryDbBase
ClientEmits == TRUE
WorkerEmits == FALSE
ServerEmits == TRUE

\* the batches delete(collection, id) emits on a store built with the flag
\* emits: if (this.emits && oldDoc)
DeleteEvents(storeEmits, db, collection, id) ==
  LET oldDoc == DbGet(db, collection, id)
  IN IF storeEmits /\ oldDoc # NoDoc
     THEN <<[id |-> NoId, type |-> "delete", collection |-> collection, doc |-> oldDoc,
             patches |-> <<>>]>>
     ELSE <<>>

\* what a store built with the flag emits when applyChange is called on it
ApplyEvents(storeEmits, db, type, collection, doc) ==
  IF ~applyChange(db, type, collection, doc).changed THEN <<>>
  ELSE IF type = "delete" THEN DeleteEvents(storeEmits, db, collection, GetId(doc))
  ELSE SetEvents(db, collection, doc)

----------------------------------------------------------------------------
(* SyncClient.  The agent's state is handled as a record c =                *)
(* [db, ids, nextId, applying, emits, acks, issued].                        *)

\* changes.map(change => ({ id: add(getId(change.doc)), ...change }));
\* acc = [ids, nextId, issued, out].  The spread comes after id, so an id
\* property of the event itself replaces the allocated one; add has run and
\* the tracker holds the allocated id either way.  The client store's events
\* carry no id property (NoId).
RECURSIVE TagChanges(_, _)
TagChanges(acc, changes) ==
  IF changes = <<>> THEN acc
  ELSE LET change == Head(changes)
           r == add(acc.ids, acc.nextId, GetId(change.doc))
       IN TagChanges(
            [ids |-> r.ids, nextId |-> r.nextId,
             issued |-> [acc.issued EXCEPT ![GetId(change.doc)] = Append(@, r.changeId)],
             out |-> Append(acc.out, IF change.id = NoId
                                     THEN [change EXCEPT !.id = r.changeId]
                                     ELSE change)],
            Tail(changes))

\* mutant: the listener tags and forwards whatever the guard says
SyncClientChangedAlways(c, changes) ==
  LET acc == TagChanges(
               [ids |-> c.ids, nextId |-> c.nextId, issued |-> c.issued, out |-> <<>>],
               changes)
  IN [c EXCEPT !.ids = acc.ids, !.nextId = acc.nextId, !.issued = acc.issued,
               !.emits = Append(@, acc.out)]

\* SyncClient.changed, the listener of the client store's 'changed' event
SyncClientChanged(c, changes) ==
  IF ~c.applying
  THEN LET acc == TagChanges(
                    [ids |-> c.ids, nextId |-> c.nextId, issued |-> c.issued, out |-> <<>>],
                    changes)
       IN [c EXCEPT !.ids = acc.ids, !.nextId = acc.nextId, !.issued = acc.issued,
                    !.emits = Append(@, acc.out)]
  ELSE c

\* the store's 'changed' event reaches the listener once per emitted batch
Notify(c, emitted) ==
  IF emitted = <<>> THEN c ELSE SyncClientChanged(c, emitted)

\* mutant: the change is applied whatever remove returned
WorkerChangedEachAlways(c, change) ==
  LET id == GetId(change.doc)
      r == remove(c.ids, id, change.id)
      seen == [change |-> change, tracked |-> Tracked(c.ids, id), applied |-> r.value]
      c1 == [c EXCEPT !.ids = r.ids, !.acks = Append(@, seen)]
  IN Notify(
       [c1 EXCEPT !.db = applyChange(c.db, change.type, change.collection, change.doc).db],
       ApplyEvents(ClientEmits, c.db, change.type, change.collection, change.doc))

\* body of changes.forEach in workerChanged
WorkerChangedEach(c, change) ==
  LET id == GetId(change.doc)
      r == remove(c.ids, id, change.id)
      seen == [change |-> change, tracked |-> Tracked(c.ids, id), applied |-> r.value]
      c1 == [c EXCEPT !.ids = r.ids, !.acks = Append(@, seen)]
  IN IF r.value
     THEN Notify(
            [c1 EXCEPT !.db = applyChange(c.db, change.type, change.collection,
                                          change.doc).db],
            ApplyEvents(ClientEmits, c.db, change.type, change.collection, change.doc))
     ELSE c1

RECURSIVE WorkerChangedForEach(_, _)
WorkerChangedForEach(c, changes) ==
  IF changes = <<>> THEN c
  ELSE WorkerChangedForEach(WorkerChangedEach(c, Head(changes)), Tail(changes))

workerChanged(c, changes) ==
  [WorkerChangedForEach([c EXCEPT !.applying = TRUE], changes) EXCEPT !.applying = FALSE]

\* the agent's state when the k-th change of the batch is reached
WorkerChangedUpTo(c, changes, k) ==
  WorkerChangedForEach([c EXCEPT !.applying = TRUE], SubSeq(changes, 1, k - 1))

\* the k-th change of the batch makes applyChange write to the client store
WritesAt(c, changes, k) ==
  LET c1 == WorkerChangedUpTo(c, changes, k)
      change == changes[k]
  IN /\ remove(c1.ids, GetId(change.doc), change.id).value
     /\ applyChange(c1.db, change.type, change.collection, change.doc).changed

\* workerChanged when the store's set or delete throws at the k-th change,
\* before the write (wrote = FALSE) or after it, from a listener of the
\* store's 'changed' event (wrote = TRUE): forEach is left by the exception and
\* the assignment after it is not reached
workerChangedThrows(c, changes, k, wrote) ==
  LET c1 == WorkerChangedUpTo(c, changes, k)
      change == changes[k]
      id == GetId(change.doc)
      r == remove(c1.ids, id, change.id)
      seen == [change |-> change, tracked |-> Tracked(c1.ids, id), applied |-> r.value]
      c2 == [c1 EXCEPT !.ids = r.ids, !.acks = Append(@, seen)]
  IN IF wrote
     THEN Notify(
            [c2 EXCEPT !.db = applyChange(c1.db, change.type, change.collection,
                                          change.doc).db],
            ApplyEvents(ClientEmits, c1.db, change.type, change.collection, change.doc))
     ELSE c2

Client ==
  [db |-> clientDb, ids |-> ids, nextId |-> nextId, applying |-> applyingWorkerChanges,
   emits |-> <<>>, acks |-> <<>>, issued |-> issued]

InstallClient(c) ==
  /\ clientDb' = c.db
  /\ ids' = c.ids
  /\ nextId' = c.nextId
  /\ applyingWorkerChanges' = c.applying
  /\ clientEmits' = c.emits
  /\ acks' = c.acks
  /\ issued' = c.issued

ClientInit ==
  /\ clientDb = EmptyDb
  /\ applyingWorkerChanges = FALSE
  /\ clientEmits = <<>>
  /\ acks = <<>>

\* the application writes a doc to the client store
LocalSet(collection, doc) ==
  /\ nextId < MaxIds
  /\ InstallClient(Notify([Client EXCEPT !.db = DbSet(clientDb, collection, doc)],
                          SetEvents(clientDb, collection, doc)))
  /\ UNCHANGED ret
  /\ UNCHANGED wvars

\* the application deletes a doc from the client store
LocalDelete(collection, id) ==
  /\ nextId < MaxIds
  /\ InstallClient(Notify([Client EXCEPT !.db = DbDelete(clientDb, collection, id)],
                          DeleteEvents(ClientEmits, clientDb, collection, id)))
  /\ UNCHANGED ret
  /\ UNCHANGED wvars

\* a batch from the worker arrives
WorkerChanged(changes) ==
  /\ InstallClient(workerChanged(Client, changes))
  /\ UNCHANGED ret
  /\ UNCHANGED wvars

\* no handler has been called
NoCall == [name |-> "none", changes |-> <<>>, collection |-> "none", serverIds |-> {}]

\* the server store is empty and nothing is on its way
SystemInit ==
  /\ serverDb = EmptyDb
  /\ client2worker = <<>>
  /\ worker2client = <<>>
  /\ reached = {}

Init == WorkerInit /\ TrackerInit /\ ClientInit /\ SystemInit /\ call = NoCall

\* the worker engine with at most one save() in flight
Next ==
  \/ \E b \in ClientBatches(events) : ClientChanged(b) /\ UNCHANGED <<call, svars>>
  \/ \E b \in ServerBatches : Changed(b) /\ UNCHANGED <<call, svars>>
  \/ \E ks \in SUBSET DocIds : Compact("c1", ks) /\ UNCHANGED <<call, svars>>
  \/ \E s \in SaveIds : ~InFlight /\ SaveStart(s) /\ UNCHANGED <<call, svars>>
  \/ \E s \in SaveIds : WorkerSaveResolve(s) /\ UNCHANGED <<call, svars>>
  \/ \E s \in SaveIds : WorkerSaveReject(s) /\ UNCHANGED <<call, svars>>
  \/ \E s \in SaveIds : ServerSaveResolve(s) /\ UNCHANGED <<call, svars>>
  \/ \E s \in SaveIds : ServerSaveReject(s) /\ UNCHANGED <<call, svars>>

Spec == Init /\ [][Next]_vars

\* save() called whenever the application likes, also before an earlier call
\* has settled: the new call allocates its own two arrays
SaveAgain(s) == ~Running(s) /\ SaveStart(s)

\* the promise of workerDb.save() of the call s settles
WorkerSaveSettles(s) ==
  (WorkerSaveResolve(s) \/ WorkerSaveReject(s)) /\ UNCHANGED <<call, svars>>

\* the promise of serverDb.save(serverChanges) of the call s settles
ServerSaveSettles(s) ==
  (ServerSaveResolve(s) \/ ServerSaveReject(s)) /\ UNCHANGED <<call, svars>>

\* changes of one document, one per call
OverlapClientBatches(n) == {<<x>> : x \in ClientChangeInputs({"c1"}, {"id1"}, n + 1)}

OverlapServerBatches ==
  {<<x>> : x \in ServerChangeInputs({"c1"}, {"id1"}, {<<"a", "none">>, <<"b", "c">>})}

\* the worker engine with up to two save() calls in flight
NextOverlap ==
  \/ \E b \in OverlapClientBatches(events) : ClientChanged(b) /\ UNCHANGED <<call, svars>>
  \/ \E b \in OverlapServerBatches : Changed(b) /\ UNCHANGED <<call, svars>>
  \/ \E ks \in SUBSET {"id1"} : Compact("c1", ks) /\ UNCHANGED <<call, svars>>
  \/ \E s \in SaveIds : SaveAgain(s) /\ UNCHANGED <<call, svars>>
  \/ \E s \in SaveIds : WorkerSaveSettles(s)
  \/ \E s \in SaveIds : ServerSaveSettles(s)

\* the promise the call s awaits settles and the call moves on: of the steps
\* of NextOverlap, these are the steps WorkerSaveSettles(s) and
\* ServerSaveSettles(s)
AwaitEnds(s) ==
  \/ pc[s] = "workerSave" /\ \E v \in {"serverSave", "rejected"} : pc' = [pc EXCEPT ![s] = v]
  \/ pc[s] = "serverSave" /\ \E v \in {"resolved", "rejected"} : pc' = [pc EXCEPT ![s] = v]

\* the two stores settle every promise they return
SaveFairness == \A s \in SaveIds : WF_pc(AwaitEnds(s))

SpecSettle == Init /\ [][NextOverlap]_vars /\ SaveFairness

----------------------------------------------------------------------------
(* The tracker alone *)

NextTracker ==
  \/ \E d \in DocIds : Add(d) /\ UNCHANGED <<call, svars>>
  \/ \E d \in DocIds, c \in 0..MaxIds : Remove(d, c) /\ UNCHANGED <<call, svars>>

SpecTracker == Init /\ [][NextTracker]_vars

----------------------------------------------------------------------------
(* The client agent: local edits, and worker batches in any order *)

\* what the worker may send: a set, with the id of a local edit or with none
WorkerSetInputs(docIds, names) ==
  {WorkerChange(cid, "set", "c1", [id |-> i, name |-> n, other |-> "c"]) :
     cid \in 0..nextId, i \in docIds, n \in names}

\* what the worker may send: a delete, with the id of a local edit or with none
WorkerDeleteInputs(docIds) ==
  {WorkerChange(cid, "delete", "c1", BareDoc(i)) : cid \in 0..nextId, i \in docIds}

\* batches of one change, and batches of two sets of one document
WorkerBatches ==
  {<<x>> : x \in WorkerSetInputs(DocIds, {"b"}) \cup WorkerDeleteInputs(DocIds)} \cup
  {<<x, y>> : x \in WorkerSetInputs({"id1"}, {"a"}), y \in WorkerSetInputs({"id1"}, {"b"})}

NextClient ==
  \/ \E i \in DocIds, n \in Names :
       LocalSet("c1", [id |-> i, name |-> n, other |-> "none"]) /\ UNCHANGED <<call, svars>>
  \/ \E i \in DocIds : LocalDelete("c1", i) /\ UNCHANGED <<call, svars>>
  \/ \E b \in WorkerBatches : WorkerChanged(b) /\ UNCHANGED <<call, svars>>

SpecClient == Init /\ [][NextClient]_vars

----------------------------------------------------------------------------
(* The client agent with its handlers called directly, as the tests call    *)
(* them, and with a client store whose writes may throw; the call that made *)
(* each step is kept in `call`                                              *)

AgentCall(name, changes, threw) ==
  [name |-> name, changes |-> changes, collection |-> "none", serverIds |-> {},
   threw |-> threw]

\* what the client store reports: an upsert with its patch, or a delete
DbChangeInputs(docIds, names) ==
  {Upsert(NoId, "c1", i, n, <<NamePatch(n)>>) : i \in docIds, n \in names} \cup
  {Delete(NoId, "c1", i) : i \in docIds}

\* batches of one change, and batches of two changes, of one document or two
DbChangeBatches ==
  {<<x>> : x \in DbChangeInputs(DocIds, Names)} \cup
  {<<x, y>> : x \in DbChangeInputs({"id1"}, {"a"}), y \in DbChangeInputs(DocIds, {"b"})}

\* SyncClient.changed(changes)
AgentChanged(changes) ==
  /\ nextId + Len(changes) <= MaxIds
  /\ InstallClient(SyncClientChanged(Client, changes))
  /\ call' = AgentCall("SyncClient.changed", changes, FALSE)
  /\ UNCHANGED svars
  /\ UNCHANGED ret
  /\ UNCHANGED wvars

\* SyncClient.workerChanged(changes) returns
AgentWorkerChanged(changes) ==
  /\ WorkerChanged(changes)
  /\ call' = AgentCall("SyncClient.workerChanged", changes, FALSE)
  /\ UNCHANGED svars

\* SyncClient.workerChanged(changes) is left by an exception of the store
AgentWorkerChangedThrows(changes, k, wrote) ==
  /\ WritesAt(Client, changes, k)
  /\ InstallClient(workerChangedThrows(Client, changes, k, wrote))
  /\ call' = AgentCall("SyncClient.workerChanged", changes, TRUE)
  /\ UNCHANGED svars
  /\ UNCHANGED ret
  /\ UNCHANGED wvars

NextAgent ==
  \/ \E b \in DbChangeBatches : AgentChanged(b)
  \/ \E b \in WorkerBatches : AgentWorkerChanged(b)
  \/ \E b \in WorkerBatches, k \in 1..2, wrote \in BOOLEAN :
       k <= Len(b) /\ AgentWorkerChangedThrows(b, k, wrote)

SpecAgent == Init /\ [][NextAgent]_vars

----------------------------------------------------------------------------
(* The handlers of the worker engine with no save in flight, on both        *)
(* collections, with the call that made each step kept in `call`            *)

\* a patch that removes the field the client does not track
RemoveOtherPatch == [path |-> "other", value |-> "none"]

\* batches of one change, on id1 in any collection and on any id in c1 (an
\* upsert may carry a patch that sets a field or one that removes a field),
\* and batches of two upserts of id1
HandlerClientBatches(n) ==
  {<<x>> : x \in ClientChangeInputs(Colls, {"id1"}, n + 1) \cup
                  ClientChangeInputs({"c1"}, DocIds, n + 1)} \cup
  {<<Upsert(ChangeIdAt(n + 1), c, "id1", "b", <<RemoveOtherPatch>>)>> : c \in Colls} \cup
  {<<x, y>> : x \in {Upsert(ChangeIdAt(n + 1), "c1", "id1", "a", <<NamePatch("a")>>)},
              y \in {Upsert(ChangeIdAt(n + 2), c, "id1", "b", <<NamePatch("b")>>) :
                       c \in Colls}}

\* batches of one change, on id1 in any collection and on any id in c1, and
\* batches of two changes
HandlerServerBatches ==
  {<<x>> : x \in ServerChangeInputs(Colls, {"id1"}, {<<"a", "none">>, <<"b", "c">>}) \cup
                  ServerChangeInputs({"c1"}, DocIds, {<<"a", "none">>, <<"b", "c">>})} \cup
  {<<x, y>> : x \in ServerChangeInputs({"c1"}, {"id1"}, {<<"a", "c">>}),
              y \in ServerChangeInputs({"c1"}, DocIds, {<<"b", "none">>})}

CallOf(name, changes, collection, serverIds) ==
  [name |-> name, changes |-> changes, collection |-> collection, serverIds |-> serverIds]

NextHandlers ==
  \/ \E b \in HandlerClientBatches(events) :
       ClientChanged(b) /\ call' = CallOf("clientChanged", b, "none", {}) /\ UNCHANGED svars
  \/ \E b \in HandlerServerBatches :
       Changed(b) /\ call' = CallOf("changed", b, "none", {}) /\ UNCHANGED svars
  \/ \E c \in Colls, ks \in SUBSET DocIds :
       Compact(c, ks) /\ call' = CallOf("compact", <<>>, c, ks) /\ UNCHANGED svars

SpecHandlers == Init /\ [][NextHandlers]_vars

----------------------------------------------------------------------------
(* util.ts called directly on a store: each step is one call of applySet,   *)
(* applyDelete or applyChange on the worker store, kept in `call` with what *)
(* it returned                                                              *)

\* the docs handed to the store: with or without the field other
UtilDocs == {[id |-> i, name |-> n, other |-> o] : i \in DocIds, n \in Names, o \in {"none", "c"}}

\* a call of a function of util.ts, its arguments as a change, and its result
UtilCall(name, change, result) ==
  [name |-> name, changes |-> <<change>>, collection |-> change.collection,
   serverIds |-> {}, changed |-> result]

\* one call of a function of util.ts on the worker store
UtilStep(name, change, r) ==
  /\ events < MaxEvents
  /\ events' = events + 1
  /\ workerDb' = r.db
  /\ call' = UtilCall(name, change, r.changed)
  /\ UNCHANGED svars
  /\ UNCHANGED <<clientChanges, pendingClientChanges, pendingServerChanges, arrC, arrS,
                 pc, batch, emits, log, arrivedC, arrivedS, failedKeys>>
  /\ UNCHANGED <<tvars, cvars>>

ApplySet(collection, doc) ==
  UtilStep("applySet", WorkerChange(NoId, "set", collection, doc),
           applySet(workerDb, collection, doc))

ApplyDelete(collection, id) ==
  UtilStep("applyDelete", ServerDelete(collection, BareDoc(id)),
           applyDelete(workerDb, collection, id))

ApplyChange(type, collection, doc) ==
  UtilStep("applyChange", WorkerChange(NoId, type, collection, doc),
           applyChange(workerDb, type, collection, doc))

NextUtil ==
  \/ \E c \in Colls, d \in UtilDocs : ApplySet(c, d)
  \/ \E c \in Colls, i \in DocIds : ApplyDelete(c, i)
  \/ \E t \in {"set", "upsert", "delete"}, c \in Colls, d \in UtilDocs : ApplyChange(t, c, d)

SpecUtil == Init /\ [][NextUtil]_vars

----------------------------------------------------------------------------
(* The whole system as the integration tests wire it: a ClientMemoryDb with *)
(* its SyncClient, a channel to the worker, the SyncWorker with its          *)
(* WorkerMemoryDb, a channel back, and a ServerMemoryDb whose 'changed'     *)
(* event calls SyncWorker.changed.  One document, id1 of c1.                *)

\* the docs the application writes to the client store
SysClientDocs == {[id |-> "id1", name |-> n, other |-> "none"] : n \in Names}

\* the docs another party writes to the server store
SysServerDocs == {[id |-> "id1", name |-> "b", other |-> o] : o \in {"none", "c"}}

\* clientDb.set(c1, doc): the store's event reaches SyncClient.changed, whose
\* batch is posted to the worker
SysClientSet(doc) ==
  /\ LocalSet("c1", doc)
  /\ client2worker' = client2worker \o clientEmits'
  /\ UNCHANGED <<serverDb, worker2client, reached, call>>

\* clientDb.delete(c1, id)
SysClientDelete(id) ==
  /\ LocalDelete("c1", id)
  /\ client2worker' = client2worker \o clientEmits'
  /\ UNCHANGED <<serverDb, worker2client, reached, call>>

\* the sides whose delete is among the changes the worker has just processed
Deleters(entries) ==
  {entries[k].kind : k \in {j \in 1..Len(entries) : entries[j].change.type = "delete"}}

\* the oldest batch of the client reaches SyncWorker.clientChanged
SysDeliverToWorker ==
  /\ client2worker # <<>>
  /\ Install([clientChanged(Engine, Head(client2worker)) EXCEPT !.log = <<>>])
  /\ client2worker' = Tail(client2worker)
  /\ worker2client' = worker2client \o emits'
  /\ reached' = reached \cup Deleters(clientChanged(Engine, Head(client2worker)).log)
  /\ UNCHANGED <<pc, batch, events, arrivedC, arrivedS, failedKeys>>
  /\ UNCHANGED <<tvars, cvars, serverDb, call>>

\* the oldest batch of the worker reaches SyncClient.workerChanged
SysDeliverToClient ==
  /\ worker2client # <<>>
  /\ WorkerChanged(Head(worker2client))
  /\ worker2client' = Tail(worker2client)
  /\ UNCHANGED <<serverDb, client2worker, reached, call>>

\* the server store's 'changed' event calls SyncWorker.changed
ServerEvent(e, emitted) ==
  IF emitted = <<>> THEN e ELSE changed(e, emitted)

\* serverDb.set(c1, doc) by another party
SysServerSet(doc) ==
  /\ events < MaxEvents
  /\ events' = events + 1
  /\ serverDb' = DbSet(serverDb, "c1", doc)
  /\ Install([ServerEvent(Engine, SetEvents(serverDb, "c1", doc)) EXCEPT !.log = <<>>])
  /\ worker2client' = worker2client \o emits'
  /\ reached' = reached \cup Deleters(ServerEvent(Engine, SetEvents(serverDb, "c1", doc)).log)
  /\ UNCHANGED <<pc, batch, arrivedC, arrivedS, failedKeys>>
  /\ UNCHANGED <<tvars, cvars, client2worker, call>>

\* serverDb.delete(c1, id) by another party
SysServerDelete(id) ==
  /\ events < MaxEvents
  /\ events' = events + 1
  /\ serverDb' = DbDelete(serverDb, "c1", id)
  /\ Install([ServerEvent(Engine, DeleteEvents(ServerEmits, serverDb, "c1", id)) EXCEPT !.log = <<>>])
  /\ worker2client' = worker2client \o emits'
  /\ reached' = reached \cup Deleters(ServerEvent(Engine, DeleteEvents(ServerEmits, serverDb, "c1", id)).log)
  /\ UNCHANGED <<pc, batch, arrivedC, arrivedS, failedKeys>>
  /\ UNCHANGED <<tvars, cvars, client2worker, call>>

\* ServerMemoryDb.save: changes.forEach(change => applyChange(this, ...)), the
\* store's event of each write calling SyncWorker.changed; acc = [db, e]
RECURSIVE ServerMemoryDbSave(_, _)
ServerMemoryDbSave(acc, changes) ==
  IF changes = <<>> THEN acc
  ELSE LET change == Head(changes)
       IN ServerMemoryDbSave(
            [db |-> applyChange(acc.db, change.type, change.collection, change.doc).db,
             e |-> ServerEvent(acc.e, ApplyEvents(ServerEmits, acc.db, change.type, change.collection,
                                                  change.doc))],
            Tail(changes))

\* save() up to its first await
SysSaveStart(s) ==
  /\ ~InFlight
  /\ SaveStart(s)
  /\ UNCHANGED <<svars, call>>

\* WorkerMemoryDb.save() resolved: the batch is built and handed to
\* ServerMemoryDb.save, which writes it at once
SysWorkerSaveResolve(s) ==
  LET serverChanges == BuildServerChanges(workerDb, clientChanges)
      saved == ServerMemoryDbSave([db |-> serverDb, e |-> Engine], serverChanges)
  IN /\ pc[s] = "workerSave"
     /\ pc' = [pc EXCEPT ![s] = "serverSave"]
     /\ batch' = [batch EXCEPT ![s] = [called |-> TRUE, changes |-> serverChanges]]
     /\ serverDb' = saved.db
     /\ Install(saved.e)
     /\ UNCHANGED <<events, arrivedC, arrivedS, failedKeys>>
     /\ UNCHANGED <<tvars, cvars, client2worker, worker2client, reached, call>>

\* the promise of ServerMemoryDb.save resolved: clientChanges are cleared,
\* finally; what the replay emits is posted to the client
SysServerSaveResolve(s) ==
  /\ ServerSaveResolve(s)
  /\ worker2client' = worker2client \o emits'
  /\ reached' = Deleters(log')
  /\ UNCHANGED <<serverDb, client2worker, call>>

NextSystem ==
  \/ \E d \in SysClientDocs : SysClientSet(d)
  \/ SysClientDelete("id1")
  \/ SysDeliverToWorker
  \/ SysDeliverToClient
  \/ \E d \in SysServerDocs : SysServerSet(d)
  \/ SysServerDelete("id1")
  \/ \E s \in SaveIds : SysSaveStart(s)
  \/ \E s \in SaveIds : SysWorkerSaveResolve(s)
  \/ \E s \in SaveIds : SysServerSaveResolve(s)

SpecSystem == Init /\ [][NextSystem]_vars

----------------------------------------------------------------------------
(* Properties of save(), checked under Spec *)

Settles(s) == Running(s) /\ pc'[s] \in {"resolved", "rejected"}

Last(seq) == seq[Len(seq)]

Range(seq) == {seq[i] : i \in 1..Len(seq)}

Count(seq, x) == Cardinality({i \in 1..Len(seq) : seq[i] = x})

LogOf(kind, changes) == [i \in 1..Len(changes) |-> [kind |-> kind, change |-> changes[i]]]

\* the records and the docs after clientChanged(localChanges), then changed(remoteChanges)
Replayed(db, cc, localChanges, remoteChanges) ==
  LET a == ClientChangedForEach([db |-> db, cc |-> cc, wc |-> <<>>, log |-> <<>>],
                                localChanges)
  IN ChangedForEach([db |-> a.db, cc |-> a.cc, wc |-> <<>>, log |-> <<>>], remoteChanges)

\* C1: while a save() is in flight a call of clientChanged, changed or compact
\* only appends to its buffer: the worker docs and the pending records stay as
\* they are and nothing is emitted; when the save settles, the worker docs are
\* those obtained by applying the buffered local changes, then the buffered
\* remote changes.
C1_BufferedUntilSettled ==
  [][/\ \A s \in SaveIds : (Running(s) /\ Running(s)') =>
          /\ workerDb' = workerDb
          /\ clientChanges' = clientChanges
          /\ emits' = <<>>
          /\ log' = <<>>
          /\ arrC'[s] = arrivedC'
          /\ arrS'[s] = arrivedS'
     /\ \A s \in SaveIds : Settles(s) =>
          workerDb' = Replayed(workerDb,
                               IF pc'[s] = "resolved" THEN <<>> ELSE clientChanges,
                               arrivedC, arrivedS).db
    ]_vars

C1_Witness ==
  /\ pc["s1"] = "serverSave"
  /\ arrC["s1"] # <<>>
  /\ arrS["s1"] # <<>>
  /\ clientChanges # <<>>
  /\ \E i \in DocIds : workerDb[<<"c1", i>>] # NoDoc

\* C2: when serverDb.save rejects, save() rejects and no pending record is
\* dropped: the records are those held when the batch was built, with the
\* buffered local changes merged in by the replay; and the batch of every later
\* save has an entry for each document id that was pending at the failure.
C2_FailedSaveKeepsRecords ==
  /\ [][\A s \in SaveIds : (pc[s] = "serverSave" /\ pc'[s] = "rejected") =>
          /\ clientChanges' = Replayed(workerDb, clientChanges, arrivedC, <<>>).cc
          /\ MapKeys(clientChanges) \subseteq MapKeys(clientChanges')
          /\ \A k \in 1..Len(clientChanges) :
               (\A x \in Range(arrivedC) : GetId(x.doc) # clientChanges[k].key)
                 => clientChanges'[k] = clientChanges[k]
       ]_vars
  /\ [](\A s \in SaveIds : (pc[s] \in {"serverSave", "resolved"}) =>
          failedKeys \subseteq {GetId(x.doc) : x \in Range(batch[s].changes)})

C2_Witness ==
  /\ pc["s1"] = "serverSave"
  /\ Cardinality(failedKeys) = 2
  /\ Len(batch["s1"].changes) = 2

\* C3: when workerDb.save() rejects, save() rejects without calling
\* serverDb.save, the pending records are kept (with the buffered local changes
\* merged in by the replay), both buffers are null again and every buffered
\* change has been replayed.
C3_WorkerSaveFailure ==
  [][\A s \in SaveIds : (pc[s] = "workerSave" /\ pc'[s] \in {"resolved", "rejected"}) =>
       /\ pc'[s] = "rejected"
       /\ ~batch'[s].called
       /\ pendingClientChanges' = "null"
       /\ pendingServerChanges' = "null"
       /\ clientChanges' = Replayed(workerDb, clientChanges, arrivedC, <<>>).cc
       /\ MapKeys(clientChanges) \subseteq MapKeys(clientChanges')
       /\ log' = LogOf("client", arrivedC) \o LogOf("server", arrivedS)
    ]_vars

C3_Witness ==
  /\ pc["s1"] = "rejected"
  /\ ~batch["s1"].called
  /\ pendingClientChanges = "null"
  /\ pendingServerChanges = "null"
  /\ Len(clientChanges) = 2
  /\ \E i \in 1..Len(log) : log[i].kind = "client"
  /\ \E i \in 1..Len(log) : log[i].kind = "server"

\* C4: every change submitted while a save() is in flight is processed exactly
\* once when that save settles, resolved or rejected: none is processed before,
\* none is lost, none is processed twice, and nothing stays buffered.
C4_ExactlyOnce ==
  [][/\ \A s \in SaveIds : (Running(s) /\ Running(s)') => log' = <<>>
     /\ \A s \in SaveIds : Settles(s) =>
          /\ Len(log') = Len(arrivedC) + Len(arrivedS)
          /\ \A x \in Range(arrivedC) :
               Count(log', [kind |-> "client", change |-> x]) = Count(arrivedC, x)
          /\ \A x \in Range(arrivedS) :
               Count(log', [kind |-> "server", change |-> x]) = Count(arrivedS, x)
          /\ arrC'[s] = <<>>
          /\ arrS'[s] = <<>>
    ]_vars

C4_Witness ==
  /\ pc["s1"] = "resolved"
  /\ Len(log) = 3
  /\ \E i \in 1..Len(log) : log[i].kind = "client"
  /\ \E i, j \in 1..Len(log) : i # j /\ log[i].kind = "server" /\ log[i] = log[j]

\* C5: the replay keeps the arrival order: the buffered local changes in the
\* order they were submitted, then the buffered remote changes in the order
\* they were submitted.
C5_ReplayInArrivalOrder ==
  [][\A s \in SaveIds : Settles(s) =>
       log' = LogOf("client", arrivedC) \o LogOf("server", arrivedS)
    ]_vars

C5_Witness ==
  /\ pc["s1"] \in {"resolved", "rejected"}
  /\ Len(log) = 3
  /\ log[1].kind = "client"
  /\ log[2].kind = "client"
  /\ log[1].change # log[2].change
  /\ log[3].kind = "server"

\* C6: when serverDb.save resolves, the pending records are emptied before the
\* replay: right after save() resolves they are exactly the records that the
\* local changes buffered during that save produce, and none from before.
C6_ClearedBeforeReplay ==
  [][\A s \in SaveIds : (pc[s] = "serverSave" /\ pc'[s] = "resolved") =>
       /\ clientChanges' = Replayed(workerDb, <<>>, arrivedC, <<>>).cc
       /\ MapKeys(clientChanges') = {GetId(x.doc) : x \in Range(arrivedC)}
       /\ \A k \in 1..Len(clientChanges') :
            clientChanges'[k].val.id \in {x.id : x \in Range(arrivedC)}
    ]_vars

C6_Witness ==
  /\ pc["s1"] = "resolved"
  /\ batch["s1"].changes # <<>>
  /\ Len(clientChanges) = 1
  /\ Len(log) = 1
  /\ log[1].kind = "client"
  /\ GetId(log[1].change.doc) = GetId(batch["s1"].changes[1].doc)

\* C7: the batch passed to serverDb.save has one entry per pending record, in
\* the records' order: a delete record gives {delete, collection, the record's
\* doc}, an upsert record gives {upsert, collection, the worker's current doc,
\* the record's journal}; no entry has a change id.
C7_BatchFromRecords ==
  \A s \in SaveIds : pc[s] = "serverSave" =>
    /\ batch[s].called
    /\ Len(batch[s].changes) = Len(clientChanges)
    /\ \A k \in 1..Len(clientChanges) :
         LET change == clientChanges[k].val
             entry == batch[s].changes[k]
         IN /\ "id" \notin DOMAIN entry
            /\ entry.type = change.type
            /\ entry.collection = change.collection
            /\ entry.patches = change.patches
            /\ entry.doc = IF change.type = "delete" THEN change.doc
                           ELSE workerDb[<<change.collection, clientChanges[k].key>>]

C7_Witness ==
  /\ pc["s1"] = "serverSave"
  /\ Len(batch["s1"].changes) = 2
  /\ batch["s1"].changes[1].type = "upsert"
  /\ Len(batch["s1"].changes[1].patches) = 1
  /\ batch["s1"].changes[1].doc # clientChanges[1].val.doc
  /\ batch["s1"].changes[2].type = "delete"

----------------------------------------------------------------------------
(* Properties of the client agent, checked under SpecClient *)

IsAckOf(r) == r.change.id \in Range(issued[GetId(r.change.doc)])

IsLatest(r) == r.change.id = Last(issued[GetId(r.change.doc)])

\* C8 as stated: of the acknowledgements of the local edits to a document,
\* only the one with the most recently issued id is ever applied.
C8_OnlyLatestAckApplied ==
  \A i \in 1..Len(acks) : (IsAckOf(acks[i]) /\ acks[i].applied) => IsLatest(acks[i])

\* C8 as amended: while the id of the latest edit is still tracked, an
\* acknowledgement is applied iff it has that id, so earlier ones are dropped;
\* once the tracker holds no id for the document, every acknowledgement is
\* applied, also one with an earlier id.
C8_LatestAckWhileTracked ==
  \A i \in 1..Len(acks) :
    IsAckOf(acks[i]) =>
      /\ acks[i].tracked # NoId => acks[i].tracked = Last(issued[GetId(acks[i].change.doc)])
      /\ acks[i].tracked # NoId => (acks[i].applied <=> IsLatest(acks[i]))
      /\ acks[i].tracked = NoId => acks[i].applied

C8_Witness ==
  /\ Len(acks) = 2
  /\ IsAckOf(acks[1]) /\ ~IsLatest(acks[1]) /\ ~acks[1].applied
  /\ IsAckOf(acks[2]) /\ IsLatest(acks[2]) /\ acks[2].applied
  /\ clientDb[<<"c1", "id1">>] = acks[2].change.doc

----------------------------------------------------------------------------
(* Properties of the tracker, checked under SpecTracker *)

\* C9: remove(docId, changeId) returns true iff no id is tracked for docId or
\* the tracked id is changeId; on a match the tracked id is cleared; when it
\* returns false, and when nothing was tracked, the tracker is unchanged.
C9_Remove ==
  [][ret'.name = "remove" =>
       LET d == ret'.docId
           c == ret'.changeId
       IN /\ ret'.value <=> (~MapHas(ids, d) \/ MapGet(ids, d) = c)
          /\ (MapHas(ids, d) /\ MapGet(ids, d) = c) =>
               /\ ~MapHas(ids', d)
               /\ \A o \in DocIds \ {d} : Tracked(ids', o) = Tracked(ids, o)
          /\ (MapHas(ids, d) /\ MapGet(ids, d) # c) => (~ret'.value /\ ids' = ids)
          /\ (MapHas(ids, d) /\ c = NoId) => ~ret'.value
          /\ ~MapHas(ids, d) => ids' = ids
    ]_vars

C9_Witness ==
  /\ ret.name = "remove"
  /\ ret.tracked # NoId
  /\ ret.changeId = ret.tracked
  /\ ret.value
  /\ ~MapHas(ids, ret.docId)
  /\ ids # <<>>

\* C10: the id tracked for a document is the id the latest add for that
\* document returned; and once a document has had a second add, a remove with
\* its first id, while an id is tracked, returns false and clears nothing.
C10_TrackedIsLatest ==
  /\ \A d \in DocIds :
       MapHas(ids, d) => (issued[d] # <<>> /\ MapGet(ids, d) = Last(issued[d]))
  /\ (/\ ret.name = "remove"
      /\ ret.tracked # NoId
      /\ Len(issued[ret.docId]) >= 2
      /\ ret.changeId = issued[ret.docId][1])
       => (~ret.value /\ Tracked(ids, ret.docId) = ret.tracked)

C10_Witness ==
  /\ ret.name = "remove"
  /\ ret.tracked # NoId
  /\ Len(issued[ret.docId]) >= 2
  /\ ret.changeId = issued[ret.docId][1]
  /\ ~ret.value
  /\ Tracked(ids, ret.docId) = Last(issued[ret.docId])

----------------------------------------------------------------------------
(* Properties of workerChanged, checked under SpecClient *)

\* the client docs after the applied ones of the decided changes, in order
RECURSIVE AppliedAcks(_, _)
AppliedAcks(db, decided) ==
  IF decided = <<>> THEN db
  ELSE LET r == Head(decided)
           next == IF r.applied
                   THEN applyChange(db, r.change.type, r.change.collection, r.change.doc).db
                   ELSE db
       IN AppliedAcks(next, Tail(decided))

\* C11: workerChanged applies a change to the client docs only if remove
\* returned true for it: the client docs after the call are those obtained by
\* applying exactly the changes for which it did; a document all of whose
\* changes were refused keeps its doc and its tracked id; a change whose id is
\* the tracked id clears the tracked id.
C11_AppliedOnlyIfRemoved ==
  [][acks' # <<>> =>
       /\ acks'[1].applied =
            remove(ids, GetId(acks'[1].change.doc), acks'[1].change.id).value
       /\ clientDb' = AppliedAcks(clientDb, acks')
       /\ \A d \in DocIds :
            LET mine == SelectSeq(acks', LAMBDA r : GetId(r.change.doc) = d)
            IN /\ (\A i \in 1..Len(mine) : ~mine[i].applied) =>
                    /\ \A c \in Colls : clientDb'[<<c, d>>] = clientDb[<<c, d>>]
                    /\ Tracked(ids', d) = Tracked(ids, d)
               /\ (\E i \in 1..Len(mine) :
                     mine[i].tracked # NoId /\ mine[i].change.id = mine[i].tracked) =>
                    Tracked(ids', d) = NoId
               /\ \A i \in 1..Len(mine) :
                    (mine[i].tracked # NoId /\ mine[i].change.id # mine[i].tracked) =>
                      ~mine[i].applied
    ]_vars

\* a refused change without id and a refused change with a stale id have left
\* the doc and the tracked id alone
C11_Witness ==
  /\ Len(acks) = 2
  /\ acks[1].tracked # NoId /\ acks[1].change.id = NoId /\ ~acks[1].applied
  /\ acks[2].tracked # NoId /\ acks[2].change.id \notin {NoId, acks[2].tracked}
  /\ ~acks[2].applied
  /\ Tracked(ids, "id1") = acks[2].tracked
  /\ clientDb[<<"c1", "id1">>] \notin {NoDoc, acks[1].change.doc, acks[2].change.doc}

----------------------------------------------------------------------------
(* Properties of changed(), checked under SpecHandlers *)

\* the changes of a batch that are for document d
ChangesFor(changes, d) == SelectSeq(changes, LAMBDA x : GetId(x.doc) = d)

\* the changes emitted by the last handler that are for document d
EmittedFor(d) ==
  {x \in UNION {Range(emits[i]) : i \in 1..Len(emits)} : GetId(x.doc) = d}

\* C12: when changed() runs with no save in flight, a server change of either
\* type for a document id whose pending record is a delete leaves the docs of
\* that id in every collection as they are, emits nothing for it, and leaves
\* the pending records as they are.
C12_PendingDeleteWins ==
  [][call'.name = "changed" =>
       \A d \in DocIds :
         (/\ ChangesFor(call'.changes, d) # <<>>
          /\ MapHas(clientChanges, d)
          /\ MapGet(clientChanges, d).type = "delete") =>
           /\ \A c \in Colls : workerDb'[<<c, d>>] = workerDb[<<c, d>>]
           /\ EmittedFor(d)' = {}
           /\ clientChanges' = clientChanges
    ]_vars

\* a server delete and a server set of id1 arrived while its delete was pending
C12_Witness ==
  /\ call.name = "changed"
  /\ Len(call.changes) = 2
  /\ call.changes[1].type = "delete" /\ GetId(call.changes[1].doc) = "id1"
  /\ call.changes[2].type = "set" /\ GetId(call.changes[2].doc) = "id1"
  /\ MapHas(clientChanges, "id1")
  /\ MapGet(clientChanges, "id1").type = "delete"
  /\ workerDb[<<"c1", "id1">>] = NoDoc
  /\ emits = <<>>

\* C13: when changed() runs with no save in flight, a server delete for a
\* document id whose pending record is an upsert does not remove the document;
\* if the batch holds nothing but deletes for that id, its docs are unchanged
\* and nothing is emitted for it; the record is unchanged and the batch a save
\* builds from the state reached has the upsert entry of that document.
C13_PendingUpsertBeatsDelete ==
  [][call'.name = "changed" =>
       \A d \in DocIds :
         LET mine == ChangesFor(call'.changes, d)
             rec == MapGet(clientChanges, d)
         IN (/\ \E k \in 1..Len(mine) : mine[k].type = "delete"
             /\ MapHas(clientChanges, d)
             /\ rec.type = "upsert") =>
              /\ workerDb'[<<rec.collection, d>>] # NoDoc
              /\ (\A k \in 1..Len(mine) : mine[k].type = "delete") =>
                   /\ \A c \in Colls : workerDb'[<<c, d>>] = workerDb[<<c, d>>]
                   /\ EmittedFor(d)' = {}
              /\ clientChanges' = clientChanges
              /\ \E k \in 1..Len(clientChanges') :
                   BuildServerChanges(workerDb', clientChanges')[k] =
                     [type |-> "upsert", collection |-> rec.collection,
                      doc |-> workerDb'[<<rec.collection, d>>], patches |-> rec.patches]
    ]_vars

\* a server delete of id1 in the collection of its pending upsert was ignored
C13_Witness ==
  /\ call.name = "changed"
  /\ Len(call.changes) = 1
  /\ call.changes[1].type = "delete"
  /\ GetId(call.changes[1].doc) = "id1"
  /\ MapHas(clientChanges, "id1")
  /\ MapGet(clientChanges, "id1").type = "upsert"
  /\ MapGet(clientChanges, "id1").collection = call.changes[1].collection
  /\ workerDb[<<call.changes[1].collection, "id1">>] # NoDoc
  /\ emits = <<>>

\* the case of C14: the one change of the batch for document d is a set, and
\* the pending record of d is an upsert
MergeCase(changes, d) ==
  /\ Len(ChangesFor(changes, d)) = 1
  /\ ChangesFor(changes, d)[1].type = "set"
  /\ MapHas(clientChanges, d)
  /\ MapGet(clientChanges, d).type = "upsert"

\* the corrective change: the pending id, the server change's type and
\* collection, the merged doc
Corrective(rec, x, merged) == WorkerChange(rec.id, x.type, x.collection, merged)

\* what changed() emits in the case of C14: the corrective change for d iff
\* the merged doc is not equal to the doc of the pending record
EmitsCorrective(d, rec, x, merged) ==
  EmittedFor(d)' = IF IsEqual(merged, rec.doc) THEN {} ELSE {Corrective(rec, x, merged)}

\* C14 as stated: when changed() runs with no save in flight, a server set for
\* a document id whose pending record is an upsert makes the worker's doc
\* merged = applyPatches(server doc, pending journal), and the corrective change
\* {pending id, merged} is emitted iff merged is not equal to the record's doc.
C14_MergedReplacesDoc ==
  [][call'.name = "changed" =>
       \A d \in DocIds :
         MergeCase(call'.changes, d) =>
           LET x == ChangesFor(call'.changes, d)[1]
               rec == MapGet(clientChanges, d)
               merged == ApplyPatches(x.doc, rec.patches)
           IN /\ workerDb'[<<x.collection, d>>] = merged
              /\ EmitsCorrective(d, rec, x, merged)
    ]_vars

\* changed() merged a server set of id1 into its pending upsert, and the
\* worker's doc is not the merged doc: it kept a field the merged doc lacks
C14_Witness ==
  /\ call.name = "changed"
  /\ Len(call.changes) = 1
  /\ call.changes[1].type = "set"
  /\ GetId(call.changes[1].doc) = "id1"
  /\ MapHas(clientChanges, "id1")
  /\ MapGet(clientChanges, "id1").type = "upsert"
  /\ workerDb[<<call.changes[1].collection, "id1">>] #
       ApplyPatches(call.changes[1].doc, MapGet(clientChanges, "id1").patches)
  /\ workerDb[<<call.changes[1].collection, "id1">>].other = "c"
  /\ call.changes[1].doc.other = "none"

\* C15 as stated: when changed() runs with no save in flight, a server change
\* for a document id without pending record is applied to the worker's docs
\* by applyChange, and it is forwarded, as it came and without change id, iff
\* it mutated the worker's docs: the doc of its id is another one after the
\* call than before it.
C15_ForwardedIffMutated ==
  [][call'.name = "changed" =>
       \A d \in DocIds :
         (Len(ChangesFor(call'.changes, d)) = 1 /\ ~MapHas(clientChanges, d)) =>
           LET x == ChangesFor(call'.changes, d)[1]
               mutated == workerDb'[<<x.collection, d>>] # workerDb[<<x.collection, d>>]
           IN /\ workerDb'[<<x.collection, d>>] =
                   applyChange(workerDb, x.type, x.collection, x.doc).db[<<x.collection, d>>]
              /\ \A c \in Colls \ {x.collection} : workerDb'[<<c, d>>] = workerDb[<<c, d>>]
              /\ EmittedFor(d)' = IF mutated THEN {WorkerChange(NoId, x.type, x.collection, x.doc)}
                                   ELSE {}
              /\ clientChanges' = clientChanges
    ]_vars

\* changed() forwarded the set {id1, a} of a document without pending record
\* although the worker's doc {id1, a, c} is what it was before the call: the
\* doc was stored together with id2's by the batch <<set {id1, a, c},
\* set {id2, b}>>, the only way to these two docs within MaxEvents
C15_Witness ==
  /\ call.name = "changed"
  /\ call.changes = <<ServerSet("c1", "id1", "a", "none")>>
  /\ clientChanges = <<>>
  /\ emits = <<call.changes>>
  /\ workerDb[<<"c1", "id1">>] = [id |-> "id1", name |-> "a", other |-> "c"]
  /\ workerDb[<<"c1", "id2">>] = [id |-> "id2", name |-> "b", other |-> "none"]
  /\ events = MaxEvents

\* the part of C15 that holds: the change is forwarded iff applyChange
\* reported a mutation, that is iff a set differs from the current doc or a
\* delete finds the doc; a set equal to the current doc and a delete of an
\* absent doc change nothing and are not forwarded.
C15_ForwardedIffReported ==
  [][call'.name = "changed" =>
       \A d \in DocIds :
         (Len(ChangesFor(call'.changes, d)) = 1 /\ ~MapHas(clientChanges, d)) =>
           LET x == ChangesFor(call'.changes, d)[1]
               old == workerDb[<<x.collection, d>>]
               quiet == IF x.type = "delete" THEN old = NoDoc ELSE old = x.doc
           IN /\ workerDb'[<<x.collection, d>>] =
                   applyChange(workerDb, x.type, x.collection, x.doc).db[<<x.collection, d>>]
              /\ \A c \in Colls \ {x.collection} : workerDb'[<<c, d>>] = workerDb[<<c, d>>]
              /\ quiet => workerDb'[<<x.collection, d>>] = old
              /\ x.type = "delete" => workerDb'[<<x.collection, d>>] = NoDoc
              /\ EmittedFor(d)' =
                   IF quiet THEN {}
                   ELSE {[id |-> NoId, type |-> x.type, collection |-> x.collection,
                          doc |-> x.doc, patches |-> <<>>]}
              /\ clientChanges' = clientChanges
    ]_vars

----------------------------------------------------------------------------
(* Properties of clientChanged(), checked under SpecHandlers *)

\* the patch lists of a sequence of changes, one after the other
RECURSIVE ConcatPatches(_)
ConcatPatches(changes) ==
  IF changes = <<>> THEN <<>> ELSE Head(changes).patches \o ConcatPatches(Tail(changes))

\* C16: when clientChanged() runs with no save in flight and the changes of
\* the batch for a document id are all upserts, the pending record of that id
\* afterwards has the journal of the upsert record it had before (none if
\* there was no record or a delete record) followed by the patch lists of
\* these upserts in the order of the batch, and the id, collection and doc of
\* the last of them.  By induction over the calls this is the concatenation of
\* the patch lists of all upserts since the last delete or successful save.
C16_JournalAccumulates ==
  [][call'.name = "clientChanged" =>
       \A d \in DocIds :
         LET mine == ChangesFor(call'.changes, d)
             before == IF MapHas(clientChanges, d) /\ MapGet(clientChanges, d).type = "upsert"
                       THEN MapGet(clientChanges, d).patches
                       ELSE <<>>
         IN (mine # <<>> /\ \A k \in 1..Len(mine) : mine[k].type = "upsert") =>
              /\ MapHas(clientChanges', d)
              /\ MapGet(clientChanges', d) =
                   [Last(mine) EXCEPT !.patches = before \o ConcatPatches(mine)]
    ]_vars

\* three upserts of id1, in two calls: the journal has their three patches in
\* arrival order and the record has the id and the doc of the third
C16_Witness ==
  /\ call.name = "clientChanged"
  /\ Len(call.changes) = 2
  /\ MapHas(clientChanges, "id1")
  /\ MapGet(clientChanges, "id1").type = "upsert"
  /\ MapGet(clientChanges, "id1").patches =
       <<NamePatch("b"), NamePatch("a"), NamePatch("b")>>
  /\ MapGet(clientChanges, "id1").id = ChangeIdAt(3)
  /\ MapGet(clientChanges, "id1").doc = call.changes[2].doc

\* C17: when clientChanged() runs with no save in flight, a delete (the one
\* change of the batch for its document id) leaves no doc of that id in its
\* collection, makes the pending record of the id exactly that delete change,
\* whatever record the id had before, and emits nothing for the id.
C17_DeleteOverwritesRecord ==
  [][call'.name = "clientChanged" =>
       \A d \in DocIds :
         LET mine == ChangesFor(call'.changes, d)
         IN (Len(mine) = 1 /\ mine[1].type = "delete") =>
              /\ workerDb'[<<mine[1].collection, d>>] = NoDoc
              /\ \A c \in Colls \ {mine[1].collection} :
                   workerDb'[<<c, d>>] = workerDb[<<c, d>>]
              /\ MapHas(clientChanges', d)
              /\ MapGet(clientChanges', d) = mine[1]
              /\ MapGet(clientChanges', d).patches = <<>>
              /\ EmittedFor(d)' = {}
    ]_vars

\* the third change of the client deleted id1 in c1; an upsert of id1 in c2
\* was among the two before it, and the delete has replaced its record
C17_Witness ==
  /\ call.name = "clientChanged"
  /\ Len(call.changes) = 1
  /\ call.changes[1] = Delete(ChangeIdAt(3), "c1", "id1")
  /\ clientChanges = <<[key |-> "id1", val |-> call.changes[1]]>>
  /\ workerDb[<<"c1", "id1">>] = NoDoc
  /\ workerDb[<<"c2", "id1">>] # NoDoc
  /\ emits = <<>>

\* C18 as stated: when clientChanged() runs with no save in flight, an upsert
\* (the one change of the batch for its document id) of a document the worker
\* has makes the worker's doc merged = applyPatches(worker's doc, patches) and
\* emits the corrective set {change id, merged} iff merged is not equal to the
\* change's doc; an upsert of a document the worker lacks writes the change's
\* doc as it is and emits nothing.
C18_UpsertMergesIntoWorker ==
  [][call'.name = "clientChanged" =>
       \A d \in DocIds :
         LET mine == ChangesFor(call'.changes, d)
             x == mine[1]
             oldDoc == workerDb[<<x.collection, d>>]
             merged == ApplyPatches(oldDoc, x.patches)
         IN (Len(mine) = 1 /\ x.type = "upsert") =>
              IF oldDoc # NoDoc
              THEN /\ workerDb'[<<x.collection, d>>] = merged
                   /\ EmittedFor(d)' =
                        IF IsEqual(merged, x.doc) THEN {}
                        ELSE {WorkerChange(x.id, "set", x.collection, merged)}
              ELSE /\ workerDb'[<<x.collection, d>>] = x.doc
                   /\ EmittedFor(d)' = {}
    ]_vars

\* clientChanged() processed an upsert of id1 whose patch removes a field of
\* the worker's doc, and the worker's doc still has the field
C18_Witness ==
  /\ call.name = "clientChanged"
  /\ Len(call.changes) = 1
  /\ call.changes[1].type = "upsert"
  /\ GetId(call.changes[1].doc) = "id1"
  /\ call.changes[1].patches = <<RemoveOtherPatch>>
  /\ workerDb[<<call.changes[1].collection, "id1">>].other = "c"
  /\ MapGet(clientChanges, "id1") = call.changes[1]
  /\ emits = <<>>

----------------------------------------------------------------------------
(* Properties of compact(), checked under Spec and SpecHandlers *)

\* a delete made by compact(): it carries the worker's doc, where a delete
\* reported by the server carries a doc with nothing but its id
FromCompact(x) == x.type = "delete" /\ x.doc # BareDoc(GetId(x.doc))

\* the document ids with a pending upsert record
PendingUpserts(cc) == {d \in DocIds : MapHas(cc, d) /\ MapGet(cc, d).type = "upsert"}

\* C19 as stated: compact never removes a document that has a pending upsert
\* record.  With no save in flight, a step of changed() or compact() leaves
\* the document of every upsert record in place; with a save in flight, a
\* document that has an upsert record and for which compact() buffered a delete
\* (and the client buffered nothing) is still there when the save has settled
\* and the buffers have been replayed.
C19_CompactKeepsPendingUpserts ==
  [][/\ (~InFlight /\ ~InFlight' /\ clientChanges' = clientChanges) =>
          \A d \in PendingUpserts(clientChanges) :
            workerDb'[<<MapGet(clientChanges, d).collection, d>>] # NoDoc
     /\ \A s \in SaveIds : Settles(s) =>
          \A d \in PendingUpserts(clientChanges) :
            (/\ \E k \in 1..Len(arrS[s]) :
                   /\ FromCompact(arrS[s][k])
                   /\ GetId(arrS[s][k].doc) = d
                   /\ arrS[s][k].collection = MapGet(clientChanges, d).collection
             /\ ChangesFor(arrC[s], d) = <<>>) =>
              workerDb'[<<MapGet(clientChanges, d).collection, d>>] # NoDoc
    ]_vars

\* save() sent the upsert of id1 and resolved; the delete that compact()
\* buffered during the save was replayed and has removed id1 from the worker
C19_Witness ==
  /\ pc["s1"] = "resolved"
  /\ \E k \in 1..Len(batch["s1"].changes) :
       /\ batch["s1"].changes[k].type = "upsert"
       /\ GetId(batch["s1"].changes[k].doc) = "id1"
  /\ \E k \in 1..Len(log) :
       /\ log[k].kind = "server"
       /\ FromCompact(log[k].change)
       /\ GetId(log[k].change.doc) = "id1"
  /\ \A k \in 1..Len(log) : log[k].kind = "server"
  /\ workerDb[<<"c1", "id1">>] = NoDoc

\* the document ids compact(collection, serverIds) removes: present in the
\* collection, not listed by the server, and without pending record
CompactRemoved(collection, serverIds) ==
  {d \in DocIds : /\ workerDb[<<collection, d>>] # NoDoc
                  /\ d \notin serverIds
                  /\ ~MapHas(clientChanges, d)}

\* C20: after compact(collection, serverIds) with no save in flight, the ids of
\* the worker's collection are the previous ids that are listed in serverIds or
\* have a pending record, and the docs that stay are as they were; the removed
\* docs are reported in one emitted batch, each as one delete without change
\* id, and nothing is emitted when nothing is removed; the docs of the other
\* collections and the pending records are as they were.
C20_CompactResult ==
  [][call'.name = "compact" =>
       LET c == call'.collection
           removed == CompactRemoved(c, call'.serverIds)
       IN /\ \A d \in DocIds :
               workerDb'[<<c, d>>] = IF d \in removed THEN NoDoc ELSE workerDb[<<c, d>>]
          /\ \A o \in Colls \ {c} : \A d \in DocIds :
               workerDb'[<<o, d>>] = workerDb[<<o, d>>]
          /\ clientChanges' = clientChanges
          /\ IF removed = {}
             THEN emits' = <<>>
             ELSE /\ Len(emits') = 1
                  /\ Len(emits'[1]) = Cardinality(removed)
                  /\ Range(emits'[1]) =
                       {WorkerChange(NoId, "delete", c, workerDb[<<c, d>>]) : d \in removed}
    ]_vars

\* compact("c1", {}) has just removed id2 and reported it, has kept id1, which
\* has a pending upsert record, and a doc is held in the other collection
C20_Witness ==
  /\ call.name = "compact" /\ call.collection = "c1" /\ call.serverIds = {}
  /\ MapHas(clientChanges, "id1") /\ MapGet(clientChanges, "id1").type = "upsert"
  /\ workerDb[<<"c1", "id1">>] # NoDoc
  /\ workerDb[<<"c1", "id2">>] = NoDoc
  /\ Len(emits) = 1
  /\ \E k \in 1..Len(emits[1]) :
       /\ emits[1][k].type = "delete" /\ emits[1][k].id = NoId
       /\ GetId(emits[1][k].doc) = "id2"
  /\ workerDb[<<"c2", "id1">>] # NoDoc

----------------------------------------------------------------------------
(* Properties of util.ts, checked under SpecUtil *)

\* the step calls applyChange with the change the step before it called it with
SameChangeAgain ==
  /\ call.name = "applyChange"
  /\ call'.name = "applyChange"
  /\ call'.changes = call.changes

\* C21 as stated: when applyChange is called twice in a row with the same
\* change, the second call leaves the store as it is and reports that nothing
\* changed.
C21_ApplyChangeIdempotent ==
  [][SameChangeAgain => (workerDb' = workerDb /\ ~call'.changed)]_vars

\* applyChange has been called with a set of a doc that lacks a field the
\* stored doc has, and reported a change, while the stored doc still differs
\* from the doc of the call: a second call with the same change is a second
\* application
C21_Witness ==
  /\ call.name = "applyChange"
  /\ call.changes[1].type = "set"
  /\ call.changed
  /\ events < MaxEvents
  /\ LET x == call.changes[1]
     IN /\ workerDb[<<x.collection, GetId(x.doc)>>] # x.doc
        /\ workerDb[<<x.collection, GetId(x.doc)>>].other = "c"
        /\ x.doc.other = "none"

\* C22: applySet(store, collection, doc) hands doc to the store's set and
\* reports a mutation iff the store holds no doc at the id of doc or holds one
\* that is not equal to doc; applyDelete(store, collection, id) deletes and
\* reports a mutation iff the store holds a doc at id; otherwise each leaves
\* the store as it is and reports no mutation.
C22_ApplySetApplyDelete ==
  [][/\ call'.name = "applySet" =>
          LET doc == call'.changes[1].doc
              c == call'.collection
              oldDoc == workerDb[<<c, GetId(doc)>>]
              writes == oldDoc = NoDoc \/ ~IsEqual(doc, oldDoc)
          IN /\ call'.changed <=> writes
             /\ workerDb' = IF writes THEN DbSet(workerDb, c, doc) ELSE workerDb
             /\ (writes /\ oldDoc = NoDoc) => workerDb'[<<c, GetId(doc)>>] = doc
     /\ call'.name = "applyDelete" =>
          LET id == GetId(call'.changes[1].doc)
              c == call'.collection
              exists == workerDb[<<c, id>>] # NoDoc
          IN /\ call'.changed <=> exists
             /\ workerDb' = [workerDb EXCEPT ![<<c, id>>] = NoDoc]
    ]_vars

\* applySet has been called with the doc the store already held and reported
\* no mutation
C22_Witness ==
  /\ call.name = "applySet"
  /\ ~call.changed
  /\ workerDb[<<call.collection, GetId(call.changes[1].doc)>>] = call.changes[1].doc

----------------------------------------------------------------------------
(* Properties of the client agent's handlers, checked under SpecAgent *)

\* every change id handed out so far
IssuedIds == UNION {Range(issued[d]) : d \in DocIds}

\* the positions of the batch that hold a change of document d
PositionsOf(changes, d) == {k \in 1..Len(changes) : GetId(changes[k].doc) = d}

Max(S) == CHOOSE x \in S : \A y \in S : y <= x

\* C23: a call of SyncClient.changed while no worker batch is being applied
\* emits one 'changed' batch that holds the changes of the call in their
\* order, each with a change id of its own that was never handed out before
\* and that the tracker handed out for the document of the change; for every
\* document of the batch the tracker then holds the id given to the last
\* change of that document, and for every other document what it held.
C23_TagsAndForwards ==
  [][(call'.name = "SyncClient.changed" /\ ~applyingWorkerChanges) =>
       LET b == call'.changes
       IN /\ Len(clientEmits') = 1
          /\ Len(clientEmits'[1]) = Len(b)
          /\ \A k \in 1..Len(b) :
               /\ [clientEmits'[1][k] EXCEPT !.id = NoId] = b[k]
               /\ clientEmits'[1][k].id \notin IssuedIds \cup {NoId}
               /\ \A j \in 1..Len(b) : j # k => clientEmits'[1][j].id # clientEmits'[1][k].id
          /\ \A d \in DocIds :
               /\ issued'[d] = issued[d] \o
                     [j \in 1..Cardinality(PositionsOf(b, d)) |->
                        clientEmits'[1][CHOOSE k \in PositionsOf(b, d) :
                           Cardinality({i \in PositionsOf(b, d) : i <= k}) = j].id]
               /\ Tracked(ids', d) =
                     IF PositionsOf(b, d) = {} THEN Tracked(ids, d)
                     ELSE clientEmits'[1][Max(PositionsOf(b, d))].id
          /\ clientDb' = clientDb
    ]_vars

\* SyncClient.changed has tagged and forwarded a batch of two changes of id1
\* while an id handed out earlier was tracked for id2, and the tracker holds
\* the id of the second change for id1
C23_Witness ==
  /\ call.name = "SyncClient.changed"
  /\ Len(call.changes) = 2
  /\ GetId(call.changes[1].doc) = "id1" /\ GetId(call.changes[2].doc) = "id1"
  /\ Len(clientEmits) = 1 /\ Len(clientEmits[1]) = 2
  /\ Tracked(ids, "id1") = clientEmits[1][2].id
  /\ Tracked(ids, "id1") # clientEmits[1][1].id
  /\ Tracked(ids, "id2") # NoId

\* C24: a call of workerChanged, whatever it writes to the client store,
\* makes the agent emit no 'changed' batch and hand out no change id, and the
\* tracker changes only by the ids workerChanged itself removes; and a call of
\* SyncClient.changed while applyingWorkerChanges is true emits nothing, hands
\* out no id and leaves the tracker as it is.
C24_NoFeedback ==
  [][/\ call'.name = "SyncClient.workerChanged" =>
          /\ clientEmits' = <<>>
          /\ nextId' = nextId
          /\ issued' = issued
          /\ \A d \in DocIds : Tracked(ids', d) \in {Tracked(ids, d), NoId}
     /\ (call'.name = "SyncClient.changed" /\ applyingWorkerChanges) =>
          /\ clientEmits' = <<>>
          /\ nextId' = nextId
          /\ issued' = issued
          /\ ids' = ids
    ]_vars

\* workerChanged has applied two sets of id1 with different docs, the second
\* of which is now stored, and has emitted nothing, while the tracker holds an
\* id for id2
C24_Witness ==
  /\ call.name = "SyncClient.workerChanged"
  /\ ~call.threw
  /\ Len(acks) = 2
  /\ acks[1].applied /\ acks[2].applied
  /\ acks[1].change.doc # acks[2].change.doc
  /\ clientDb[<<"c1", "id1">>] = acks[2].change.doc
  /\ clientEmits = <<>>
  /\ Tracked(ids, "id2") # NoId

\* C25 as stated: after a call of workerChanged, whether it returned or was
\* left by an exception of the store, applyingWorkerChanges is false, and the
\* next call of SyncClient.changed tags and forwards its batch.
C25_GuardRestored ==
  [][/\ call'.name = "SyncClient.workerChanged" => ~applyingWorkerChanges'
     /\ (call.name = "SyncClient.workerChanged" /\ call'.name = "SyncClient.changed") =>
          /\ Len(clientEmits') = 1
          /\ nextId' = nextId + Len(call'.changes)
    ]_vars

\* a write to the client store threw inside workerChanged, the guard is still
\* set, and the call of SyncClient.changed that followed emitted nothing and
\* tracked nothing
C25_Witness ==
  /\ call.name = "SyncClient.changed"
  /\ applyingWorkerChanges
  /\ clientEmits = <<>>
  /\ \A k \in 1..Len(call.changes) : ~MapHas(ids, GetId(call.changes[k].doc))

----------------------------------------------------------------------------
(* Emissions of the worker engine, checked under Spec *)

\* the step is a call of clientChanged, changed or compact
HandlerStep == pc' = pc

\* 1 if the sequence holds something, else 0
NonEmpty(seq) == IF seq = <<>> THEN 0 ELSE 1

\* C26: a call of clientChanged or changed (or of compact, which calls
\* changed) while a save is in flight emits nothing; a call with no save in
\* flight emits at most one 'changed' batch and never an empty one, so nothing
\* is emitted when nothing was queued; when a save settles, clientChanged and
\* changed are each invoked once on the buffers and emit at most one batch
\* each, none for an empty buffer and never an empty batch.
C26_AtMostOneBatch ==
  [][/\ (HandlerStep /\ InFlight) => emits' = <<>>
     /\ (HandlerStep /\ ~InFlight) => Len(emits') <= 1
     /\ \A s \in SaveIds : Settles(s) =>
          Len(emits') <= NonEmpty(arrC[s]) + NonEmpty(arrS[s])
     /\ \A k \in 1..Len(emits') :
          /\ emits'[k] # <<>>
          /\ \A i, j \in 1..Len(emits'[k]) :
               GetId(emits'[k][i].doc) = GetId(emits'[k][j].doc) => i = j
    ]_vars

\* a save has settled and the replay of its buffers emitted two batches: the
\* corrective changes of clientChanged, then the changes of changed
C26_Witness ==
  /\ \E s \in SaveIds : pc[s] \in {"resolved", "rejected"}
  /\ Len(emits) = 2
  /\ \E k \in 1..Len(log) : log[k].kind = "client"
  /\ \E k \in 1..Len(log) : log[k].kind = "server"
  /\ emits[1][1].id # NoId
  /\ emits[2][1].id = NoId

----------------------------------------------------------------------------
(* End-to-end properties, checked under SpecSystem *)

\* the document of the system
SysKey == <<"c1", "id1">>

\* nothing is on its way and no save is in flight
Quiescent == client2worker = <<>> /\ worker2client = <<>> /\ ~InFlight

\* the step is the call of serverDb.save by the save s, with nothing on its
\* way and nothing buffered since the save began
CallsServerSave(s) ==
  /\ pc[s] = "workerSave" /\ pc'[s] = "serverSave"
  /\ client2worker = <<>> /\ worker2client = <<>>
  /\ arrC[s] = <<>> /\ arrS[s] = <<>>

\* the worker holds an upsert record for the document, with the journal of the
\* client's upserts since the last save (no client delete among them), and
\* the server holds the document: its last change was an upsert
UpsertMeetsUpsert ==
  /\ MapHas(clientChanges, "id1")
  /\ MapGet(clientChanges, "id1").type = "upsert"
  /\ "client" \notin reached
  /\ serverDb[SysKey] # NoDoc

\* C27 as stated: when the worker holds the journal P of the client's upserts
\* of a document and the server holds the doc S of its last upsert, then, once
\* every message is delivered, the client's doc is applyPatches(S, P); and the
\* save that follows writes that same doc to the server.
C27_ClientPatchesWin ==
  [][LET P == MapGet(clientChanges, "id1").patches
     IN /\ (Quiescent /\ UpsertMeetsUpsert) =>
             clientDb[SysKey] = ApplyPatches(serverDb[SysKey], P)
        /\ \A s \in SaveIds : (CallsServerSave(s) /\ UpsertMeetsUpsert) =>
             /\ serverDb'[SysKey] = ApplyPatches(serverDb[SysKey], P)
             /\ serverDb'[SysKey] = clientDb[SysKey]
    ]_vars

\* every message is delivered, the client's upsert is pending at the worker,
\* the server has written the doc without the field other, and the client's
\* doc still has that field
C27_Witness ==
  /\ Quiescent
  /\ UpsertMeetsUpsert
  /\ serverDb[SysKey].other = "none"
  /\ clientDb[SysKey].other = "c"
  /\ ApplyPatches(serverDb[SysKey], MapGet(clientChanges, "id1").patches).other = "none"

\* the worker holds a delete record for the document: the client's delete has
\* reached the worker and no save has succeeded since
DeleteIsPending ==
  /\ MapHas(clientChanges, "id1")
  /\ MapGet(clientChanges, "id1").type = "delete"

\* C28: while the client's delete of the document is pending at the worker,
\* whatever the server set or deleted before or after it, the client is
\* without the document once every message is delivered, and the save that
\* follows leaves the server without the document.
C28_ClientDeleteWins ==
  [][/\ (Quiescent /\ DeleteIsPending) => clientDb[SysKey] = NoDoc
     /\ \A s \in SaveIds : (CallsServerSave(s) /\ DeleteIsPending) =>
          serverDb'[SysKey] = NoDoc
    ]_vars

\* the client's delete is pending, a delete of the server has reached the
\* worker since the last save and the server has set the document again
C28_Witness ==
  /\ Quiescent
  /\ DeleteIsPending
  /\ "server" \in reached
  /\ serverDb[SysKey] # NoDoc
  /\ clientDb[SysKey] = NoDoc

----------------------------------------------------------------------------
(* Termination of save(), checked under SpecSettle *)

\* no buffer is set and no array holds a change that was not replayed
Drained ==
  /\ pendingClientChanges = "null"
  /\ pendingServerChanges = "null"
  /\ \A s \in SaveIds : arrC[s] = <<>> /\ arrS[s] = <<>>

\* C29: if the stores settle every promise, every save() settles; the step
\* that settles a save leaves both buffers null and has replayed the changes
\* buffered in the arrays of that save, client changes first; and whenever no
\* save is in flight, buffering is off and nothing is left buffered.
C29_SaveSettles ==
  /\ \A s \in SaveIds : Running(s) ~> (pc[s] \in {"resolved", "rejected"})
  /\ [][\A s \in SaveIds : Settles(s) =>
          /\ pendingClientChanges' = "null"
          /\ pendingServerChanges' = "null"
          /\ arrC'[s] = <<>>
          /\ arrS'[s] = <<>>
          /\ log' = LogOf("client", arrC[s]) \o LogOf("server", arrS[s])
       ]_vars
  /\ [](~InFlight => Drained)

\* a save has settled while a later one is still in flight, and has replayed
\* a client change and a server change
C29_Witness ==
  /\ pc["s1"] \in {"resolved", "rejected"}
  /\ Running("s2")
  /\ pendingClientChanges = "null"
  /\ pendingServerChanges = "null"
  /\ \E k \in 1..Len(log) : log[k].kind = "client"
  /\ \E k \in 1..Len(log) : log[k].kind = "server"

----------------------------------------------------------------------------
(* The critical section of save(), checked under Spec *)

\* the ids of the documents of a batch passed to serverDb.save
BatchKeys(changes) == {GetId(changes[k].doc) : k \in 1..Len(changes)}

\* C30: with at most one save() in flight, from the step that builds the
\* batch to the step that clears the records, clientChanges and the docs the
\* batch was built from stay as they were: at every step of that stretch the
\* batch is the one the records would give now; so the records a successful
\* save clears are, one for one, the entries of the batch that serverDb.save
\* was given.
C30_CriticalSection ==
  [][\A s \in SaveIds : pc[s] = "serverSave" =>
       /\ batch[s].called
       /\ batch[s].changes = BuildServerChanges(workerDb, clientChanges)
       /\ BatchKeys(batch[s].changes) = MapKeys(clientChanges)
       /\ pc'[s] = "serverSave" => clientChanges' = clientChanges /\ batch'[s] = batch[s]
       /\ pc'[s] = "resolved" =>
            \A k \in 1..Len(clientChanges') :
              clientChanges'[k].val.id \in {x.id : x \in Range(arrC[s])}
    ]_vars

\* a save that sent two records has resolved; a client change of one of the
\* two documents arrived during the save and is pending now
C30_Witness ==
  /\ pc["s1"] = "resolved"
  /\ Len(batch["s1"].changes) = 2
  /\ \E k \in 1..Len(log) : log[k].kind = "client"
  /\ Len(clientChanges) >= 1
  /\ MapKeys(clientChanges) \subseteq BatchKeys(batch["s1"].changes)

----------------------------------------------------------------------------
(* Overlapping save() calls, checked under SpecSettle *)

\* the batch has an entry made from the record: same type, collection,
\* document and journal
SentIn(changes, key, record) ==
  \E k \in 1..Len(changes) :
    /\ changes[k].type = record.type
    /\ changes[k].collection = record.collection
    /\ GetId(changes[k].doc) = key
    /\ changes[k].patches = record.patches

\* C31 as stated: also when save() calls overlap, every record that the
\* resolving step of a save clears has its entry in the batch that this save
\* passed to serverDb.save.
C31_NothingDroppedUnsent ==
  [][\A s \in SaveIds : (pc[s] = "serverSave" /\ pc'[s] = "resolved") =>
       \A k \in 1..Len(clientChanges) :
         SentIn(batch[s].changes, clientChanges[k].key, clientChanges[k].val)
    ]_vars

\* a save that was called while an earlier one was awaiting serverDb.save has
\* settled, and the earlier one, whose batch was empty, has then resolved
C31_Witness ==
  /\ pc["s1"] = "resolved"
  /\ batch["s1"].called
  /\ batch["s1"].changes = <<>>
  /\ pc["s2"] \in {"resolved", "rejected"}
  /\ clientChanges = <<>>
  /\ \E c \in Colls, i \in DocIds : workerDb[<<c, i>>] # NoDoc

----------------------------------------------------------------------------
(* The client after a saved edit, checked under SpecSystem *)

\* the client has edited the document, every edit has reached the worker and
\* has been cleared by a successful save, no save is in flight, and the only
\* batch on its way to the client is the one the worker emitted in its last
\* step, a call of changed() by the server store
SavedEditThenServerChange ==
  /\ Len(issued["id1"]) > 0
  /\ client2worker = <<>>
  /\ ~MapHas(clientChanges, "id1")
  /\ ~InFlight
  /\ worker2client # <<>>
  /\ worker2client = emits
  /\ log = <<>>

\* C32 as stated: in that situation the delivery of the batch to
\* workerChanged applies each of its changes that carries no change id.
C32_RemoteAppliedAfterSave ==
  [][(SavedEditThenServerChange /\ worker2client' = Tail(worker2client)) =>
       \A k \in 1..Len(acks') : acks'[k].change.id = NoId => acks'[k].applied
    ]_vars

\* the client's edit was saved, the server then changed the document, and the
\* client has dropped the change: it still has its own doc, the worker and
\* the server have the server's
C32_Witness ==
  /\ Quiescent
  /\ ~MapHas(clientChanges, "id1")
  /\ Len(acks) = 1
  /\ acks[1].change.id = NoId
  /\ ~acks[1].applied
  /\ clientDb[SysKey].name = "a"
  /\ workerDb[SysKey].name = "b"
  /\ serverDb[SysKey].name = "b"

----------------------------------------------------------------------------
(* Collections, checked under SpecHandlers *)

\* the pending record of the document id, if any, was made by a change in
\* another collection
RecordElsewhere(d, collection) ==
  MapHas(clientChanges, d) /\ MapGet(clientChanges, d).collection # collection

\* C33 as stated: with no save in flight, a call of changed() with one server
\* change of document X in collection B, while the pending record of X was
\* made in another collection, writes and emits what it would without that
\* record; and so does compact() of a collection in which no record was made.
C33_CollectionsIsolated ==
  [][/\ (/\ call'.name = "changed"
         /\ Len(call'.changes) = 1
         /\ RecordElsewhere(GetId(call'.changes[1].doc), call'.changes[1].collection)) =>
          LET alone == changed([Engine EXCEPT
                                  !.cc = MapDelete(@, GetId(call'.changes[1].doc))],
                               call'.changes)
          IN workerDb' = alone.db /\ emits' = alone.emits
     /\ (/\ call'.name = "compact"
         /\ clientChanges # <<>>
         /\ \A d \in MapKeys(clientChanges) : RecordElsewhere(d, call'.collection)) =>
          LET alone == compact([Engine EXCEPT !.cc = <<>>], call'.collection,
                               call'.serverIds)
          IN workerDb' = alone.db /\ emits' = alone.emits
    ]_vars

\* the server set id1 in c2 while the client's delete of id1 in c1 was
\* pending: the worker has dropped the change
C33_Witness ==
  /\ call.name = "changed"
  /\ Len(call.changes) = 1
  /\ call.changes[1].type = "set"
  /\ call.changes[1].collection = "c2"
  /\ GetId(call.changes[1].doc) = "id1"
  /\ RecordElsewhere("id1", "c2")
  /\ MapGet(clientChanges, "id1").type = "delete"
  /\ workerDb[<<"c2", "id1">>] = NoDoc
  /\ emits = <<>>

----------------------------------------------------------------------------
(* An upsert over a pending delete, checked under SpecHandlers *)

\* the entries for document d of the batch a save would build now
EntriesFor(db, cc, d) == ChangesFor(BuildServerChanges(db, cc), d)

\* C34: when clientChanged() runs with no save in flight, an upsert (the one
\* change of the batch for its document id) of a document whose pending record
\* is a delete makes the record exactly that upsert, with its patches as the
\* whole journal; the batch a save builds from the state reached has one entry
\* for the document, an upsert with that journal and the doc the worker holds.
C34_UpsertReplacesDelete ==
  [][call'.name = "clientChanged" =>
       \A d \in DocIds :
         LET mine == ChangesFor(call'.changes, d)
             entries == EntriesFor(workerDb', clientChanges', d)
         IN (/\ Len(mine) = 1
             /\ mine[1].type = "upsert"
             /\ MapHas(clientChanges, d)
             /\ MapGet(clientChanges, d).type = "delete") =>
              /\ MapHas(clientChanges', d)
              /\ MapGet(clientChanges', d) = mine[1]
              /\ Len(entries) = 1
              /\ entries[1].type = "upsert"
              /\ entries[1].patches = mine[1].patches
              /\ entries[1].doc = workerDb'[<<mine[1].collection, d>>]
              /\ entries[1].doc # NoDoc
    ]_vars

\* the third change of the client is an upsert of id1 with one patch: the
\* record is that change alone and the worker holds the change's doc
C34_Witness ==
  /\ call.name = "clientChanged"
  /\ Len(call.changes) = 1
  /\ call.changes[1] = Upsert(ChangeIdAt(3), "c1", "id1", "b", <<NamePatch("b")>>)
  /\ clientChanges = <<[key |-> "id1", val |-> call.changes[1]]>>
  /\ workerDb[<<"c1", "id1">>] = call.changes[1].doc
  /\ EntriesFor(workerDb, clientChanges, "id1")[1].type = "upsert"
  /\ emits = <<>>

----------------------------------------------------------------------------
(* The docs of pending upserts, checked under Spec *)

\* C35: in every reachable state the worker holds the document of every
\* pending upsert record, in the record's collection; and every upsert entry
\* of a batch passed to serverDb.save carries a document.
C35_UpsertDocPresent ==
  /\ \A k \in 1..Len(clientChanges) :
       clientChanges[k].val.type = "upsert" =>
         workerDb[<<clientChanges[k].val.collection, clientChanges[k].key>>] # NoDoc
  /\ \A s \in SaveIds : \A k \in 1..Len(batch[s].changes) :
       batch[s].changes[k].type = "upsert" => batch[s].changes[k].doc # NoDoc

\* a save was rejected and has replayed a server delete of id1; the upsert
\* record of id1 is pending and the worker still holds the document
C35_Witness ==
  /\ pc["s1"] = "rejected"
  /\ \E k \in 1..Len(log) :
       /\ log[k].kind = "server"
       /\ log[k].change.type = "delete"
       /\ GetId(log[k].change.doc) = "id1"
  /\ MapHas(clientChanges, "id1")
  /\ MapGet(clientChanges, "id1").type = "upsert"
  /\ workerDb[<<"c1", "id1">>] # NoDoc

----------------------------------------------------------------------------
(* A server change delivered twice, checked under SpecSystem *)

\* the client after the batches have been delivered to workerChanged, oldest
\* first
RECURSIVE DeliverAll(_, _)
DeliverAll(c, batches) ==
  IF batches = <<>> THEN c
  ELSE DeliverAll(workerChanged([c EXCEPT !.emits = <<>>, !.acks = <<>>], Head(batches)),
                  Tail(batches))

\* the change the server store has just reported to changed(), no save being
\* in flight: the step wrote the server store and the store emitted an event
ServerChangeDelivered ==
  /\ events' = events + 1
  /\ ~InFlight
  /\ serverDb' # serverDb

TheServerChange ==
  IF serverDb'[SysKey] = NoDoc THEN DeleteEvents(ServerEmits, serverDb, "c1", "id1")
  ELSE SetEvents(serverDb, "c1", serverDb'[SysKey])

\* C36: after changed() has handled a server change with no save in flight, a
\* second call with the same change leaves the worker's docs as the first
\* call left them; and the client that has received every batch on its way,
\* those of the first call included, has the same docs before and after it
\* receives what the second call emits.
C36_SecondDeliveryNoEffect ==
  [][ServerChangeDelivered =>
       LET again == changed([Engine EXCEPT !.emits = <<>>]', TheServerChange)
           once == DeliverAll(Client', worker2client')
           twice == DeliverAll(once, again.emits)
       IN /\ again.db = workerDb'
          /\ again.cc = clientChanges'
          /\ twice.db = once.db
    ]_vars

\* the server has set the document while the client's upsert was pending:
\* the worker has merged it and sent the merged doc to the client under the
\* id of the client's change, and a second delivery would send it again
C36_Witness ==
  /\ ~InFlight
  /\ UpsertMeetsUpsert
  /\ Len(worker2client) = 1
  /\ worker2client = emits
  /\ emits[1][1].id = MapGet(clientChanges, "id1").id
  /\ emits[1][1].doc = workerDb[SysKey]
  /\ changed([Engine EXCEPT !.emits = <<>>],
             SetEvents(EmptyDb, "c1", serverDb[SysKey])).emits = emits

----------------------------------------------------------------------------
(* One emitted change per document, checked under SpecHandlers *)

\* what the k-th change of a clientChanged batch puts in workerChangesById
QueuedByClientChange(changes, k) ==
  LET before == ClientChangedForEach(
                  [db |-> workerDb, cc |-> clientChanges, wc |-> <<>>, log |-> <<>>],
                  SubSeq(changes, 1, k - 1))
  IN MapValues(ClientChangedEach([before EXCEPT !.wc = <<>>], changes[k]).wc)

\* what the k-th change of a changed batch puts in workerChangesById
QueuedByServerChange(changes, k) ==
  LET before == ChangedForEach(
                  [db |-> workerDb, cc |-> clientChanges, wc |-> <<>>, log |-> <<>>],
                  SubSeq(changes, 1, k - 1))
  IN MapValues(ChangedEach([before EXCEPT !.wc = <<>>], changes[k]).wc)

QueuedBy(c, k) ==
  IF c.name = "clientChanged" THEN QueuedByClientChange(c.changes, k)
  ELSE QueuedByServerChange(c.changes, k)

\* the changes of the call for document d that queue a change
Effective(c, d) ==
  {k \in 1..Len(c.changes) : GetId(c.changes[k].doc) = d /\ QueuedBy(c, k) # <<>>}

\* C37: a batch that clientChanged or changed emits (no save in flight) has
\* at most one change per document id; for each document the emitted change
\* is the one queued by the last change of the incoming batch that queues
\* one for it, and nothing is emitted for a document when none does.
C37_LastQueuedWins ==
  [][call'.name \in {"clientChanged", "changed"} =>
       /\ \A b \in 1..Len(emits') : \A i, j \in 1..Len(emits'[b]) :
            GetId(emits'[b][i].doc) = GetId(emits'[b][j].doc) => i = j
       /\ \A d \in DocIds :
            EmittedFor(d)' = IF Effective(call', d) = {} THEN {}
                             ELSE {QueuedBy(call', Max(Effective(call', d)))[1]}
    ]_vars

\* two server sets of id1 in one batch, both applied: the one emitted change
\* of id1 is that of the second
C37_Witness ==
  /\ call.name = "changed"
  /\ Len(call.changes) = 2
  /\ call.changes[1].type = "set" /\ GetId(call.changes[1].doc) = "id1"
  /\ call.changes[2].type = "set" /\ GetId(call.changes[2].doc) = "id1"
  /\ call.changes[1].doc # call.changes[2].doc
  /\ clientChanges = <<>>
  /\ Len(emits) = 1
  /\ Len(emits[1]) = 1
  /\ emits[1][1].doc = call.changes[2].doc

----------------------------------------------------------------------------
(* Who writes the pending records, checked under Spec *)

\* C38: a call of changed() or compact(), buffered or not, leaves
\* clientChanges as they are; a step that is not the settling of a save and
\* changes the records is a call of clientChanged; records are removed only
\* by the step that resolves a save; and the records after a save settles are
\* those the replay of its client changes makes (of the kept records if it
\* was rejected, of none if it resolved), the replay of its server changes
\* adding and removing nothing.
C38_OnlyClientAndSaveWrite ==
  [][/\ \A b \in ServerBatches : Changed(b) => clientChanges' = clientChanges
     /\ \A ks \in SUBSET DocIds : Compact("c1", ks) => clientChanges' = clientChanges
     /\ (pc' = pc /\ clientChanges' # clientChanges) =>
          \E b \in ClientBatches(events) : ClientChanged(b)
     /\ (MapKeys(clientChanges) \ MapKeys(clientChanges') # {}) =>
          \E s \in SaveIds : pc[s] = "serverSave" /\ pc'[s] = "resolved"
     /\ \A s \in SaveIds : Settles(s) =>
          clientChanges' =
            Replayed(workerDb, IF pc'[s] = "resolved" THEN <<>> ELSE clientChanges,
                     arrC[s], <<>>).cc
    ]_vars

\* a rejected save has replayed a server set and a server delete of a
\* document with a pending record: the record is still there
C38_Witness ==
  /\ pc["s1"] = "rejected"
  /\ Len(clientChanges) = 1
  /\ \E k \in 1..Len(log) :
       /\ log[k].kind = "server"
       /\ log[k].change.type = "set"
       /\ MapHas(clientChanges, GetId(log[k].change.doc))
  /\ \E k \in 1..Len(log) :
       /\ log[k].kind = "server"
       /\ log[k].change.type = "delete"
       /\ MapHas(clientChanges, GetId(log[k].change.doc))
  /\ \A k \in 1..Len(log) : log[k].kind = "server"

----------------------------------------------------------------------------
(* The two buffers, checked under Spec *)

\* C39: in every reachable state the two buffers are both null or both set,
\* to the arrays of the same save() call; with at most one save in flight
\* they are set exactly while a save is in flight, and changes are held in
\* the arrays only then.
C39_BuffersTogether ==
  /\ IsBuffering(pendingClientChanges) <=> IsBuffering(pendingServerChanges)
  /\ pendingClientChanges = pendingServerChanges
  /\ IsBuffering(pendingClientChanges) <=> InFlight
  /\ \A s \in SaveIds : Running(s) <=> pendingClientChanges = s
  /\ \A s \in SaveIds : ~Running(s) => arrC[s] = <<>> /\ arrS[s] = <<>>

\* a save is in flight and a client change and a server change have both
\* been deferred
C39_Witness ==
  /\ pc["s1"] = "serverSave"
  /\ pendingClientChanges = "s1"
  /\ pendingServerChanges = "s1"
  /\ arrC["s1"] # <<>>
  /\ arrS["s1"] # <<>>

====
